---------------------------- MODULE Spec2Model ----------------------------
(***************************************************************************)
(* Model of the detection service of src/start.js (the second, complete    *)
(* variant of the script, lines 1219-3085): the /api request handler with  *)
(* its rate limiter, response cache, periodic sweeps, DNS resolver and     *)
(* batch detection loop.                                                   *)
(*                                                                         *)
(* Strings that the code inspects character by character (the target, the  *)
(* port) are sequences of one-character strings.  Date.now() is the        *)
(* variable now, in milliseconds.  A JavaScript Map is a sequence of       *)
(* entries in insertion order.                                             *)
(***************************************************************************)
EXTENDS Integers, Sequences, FiniteSets, TLC

(***************************************************************************)
(* Program constants (src/start.js, "配置参数").                            *)
(***************************************************************************)
CACHE_DURATION == 30000
RATE_LIMIT_WINDOW == 60000
TLS_TIMEOUT == 3000
WEBSOCKET_TIMEOUT == 3000
CDN_TRACE_TIMEOUT == 3000
DNS_MAX_RECURSION_DEPTH == 10
DEFAULT_PORT == 443
DEFAULT_HOST == "clpan.pages.dev"
DEFAULT_WS_PATH == "/"

(***************************************************************************)
(* Limits of the program, scaled down so that the states in which they     *)
(* bind are reachable: the source sets MAX_REQUESTS_PER_IP = 60 (line      *)
(* 1265; 10 in the first variant, line 39), MAX_CONCURRENT = 10 (line      *)
(* 2649), MAX_IP_COUNT = 50 (line 2483), and the forced cleanup halves the *)
(* cache above 500 entries (line 1478) and the rate map above 2500 records *)
(* (line 1489).  The code compares against these numbers and never uses    *)
(* their particular values otherwise.                                      *)
(***************************************************************************)
MAX_REQUESTS_PER_IP == 2
MAX_CONCURRENT == 2
MAX_IP_COUNT == 3
CACHE_PRESSURE_SIZE == 2
RATE_PRESSURE_SIZE == 1

(***************************************************************************)
(* Bounds of the model.                                                    *)
(***************************************************************************)
MaxTicks == 3          \* the clock of SpecRate runs from 0 to MaxTicks * Tick
CacheTicks == 3        \* the clock of Spec runs from 0 to CacheTicks * Tick
ProbeTick == 1000      \* one step of the clock of SpecProbe, in milliseconds
MaxChunks == 2         \* the body of a trace response has at most MaxChunks chunks
Tick == CACHE_DURATION \* one step of the clock, in milliseconds

\* A missing query parameter: the empty sequence for ip and port (the code
\* treats undefined and "" alike, !ip and !port), "" for host (!host), and
\* Undefined for wsPath (only undefined takes the default).
Undefined == "undefined"

(***************************************************************************)
(* Characters and strings.                                                 *)
(***************************************************************************)
Digits == {"0", "1", "2", "3", "4", "5", "6", "7", "8", "9"}
HexLetters == {"a", "b", "c", "d", "e", "f", "A", "B", "C", "D", "E", "F"}
OtherLetters == {"g", "h", "l", "n", "o", "p", "r", "w", "x", "z", "G", "N", "O", "T", "Z"}
AlNum == Digits \cup HexLetters \cup OtherLetters
HexDigits == Digits \cup HexLetters

DigitVal(c) ==
  CASE c = "0" -> 0 [] c = "1" -> 1 [] c = "2" -> 2 [] c = "3" -> 3
    [] c = "4" -> 4 [] c = "5" -> 5 [] c = "6" -> 6 [] c = "7" -> 7
    [] c = "8" -> 8 [] c = "9" -> 9

AllIn(s, S) == \A k \in 1..Len(s) : s[k] \in S

\* value of a string of decimal digits (parseInt(part, 10) on digits only)
RECURSIVE DecVal(_)
DecVal(s) ==
  IF Len(s) = 0 THEN 0
  ELSE 10 * DecVal(SubSeq(s, 1, Len(s) - 1)) + DigitVal(s[Len(s)])

\* str.split(sep): the pieces of s between occurrences of the character sep
RECURSIVE Split(_, _)
Split(s, sep) ==
  IF \A k \in 1..Len(s) : s[k] # sep THEN <<s>>
  ELSE LET p == CHOOSE k \in 1..Len(s) :
                  s[k] = sep /\ \A j \in 1..(k - 1) : s[j] # sep
       IN <<SubSeq(s, 1, p - 1)>> \o Split(SubSeq(s, p + 1, Len(s)), sep)

(***************************************************************************)
(* isIPAddress, isDomain (src/start.js 2303-2324).                         *)
(***************************************************************************)
\* /^(?:[0-9]{1,3}\.){3}[0-9]{1,3}$/
ipv4Regex(str) ==
  LET parts == Split(str, ".")
  IN /\ Len(parts) = 4
     /\ \A k \in 1..4 : Len(parts[k]) \in 1..3 /\ AllIn(parts[k], Digits)

\* /^(?:[0-9a-fA-F]{1,4}:){7}[0-9a-fA-F]{1,4}$|^::1$|^::$|^::/
ipv6Regex(str) ==
  LET parts == Split(str, ":")
  IN \/ /\ Len(parts) = 8
        /\ \A k \in 1..8 : Len(parts[k]) \in 1..4 /\ AllIn(parts[k], HexDigits)
     \/ str = <<":", ":", "1">>
     \/ str = <<":", ":">>
     \/ Len(str) >= 2 /\ str[1] = ":" /\ str[2] = ":"

isIPAddress(str) ==
  IF Len(str) = 0 THEN FALSE
  ELSE IF ipv4Regex(str)
       THEN LET parts == Split(str, ".")
            IN \A k \in 1..4 : DecVal(parts[k]) >= 0 /\ DecVal(parts[k]) <= 255
       ELSE ipv6Regex(str)

\* /^[a-zA-Z0-9][a-zA-Z0-9.-]*[a-zA-Z0-9]$|^[a-zA-Z0-9]$/
isDomain(str) ==
  \/ /\ Len(str) >= 2
     /\ str[1] \in AlNum
     /\ str[Len(str)] \in AlNum
     /\ \A k \in 2..(Len(str) - 1) : str[k] \in AlNum \cup {".", "-"}
  \/ Len(str) = 1 /\ str[1] \in AlNum

(***************************************************************************)
(* Parsing of the query (src/start.js 2416-2442, 2500).                    *)
(***************************************************************************)
\* ip.match(/^(.+?):(\d+)$/): the position of the colon that splits ip:port,
\* 0 when there is no match.  The digits must run to the end of the string, so
\* only the last colon can be the separator.
ipPortMatch(ip) ==
  LET colons == {k \in 2..(Len(ip) - 1) :
                   ip[k] = ":" /\ AllIn(SubSeq(ip, k + 1, Len(ip)), Digits)}
  IN IF colons = {} THEN 0 ELSE CHOOSE k \in colons : \A j \in colons : k <= j

\* String(DEFAULT_PORT); the handler's port = DEFAULT_PORT (a number) parses
\* to the same value as this string
DefaultPortStr == <<"4", "4", "3">>

\* parseInt(port): an optional sign, then the longest prefix of digits; NaN
\* (nan = TRUE) when there is no digit.
parseInt(port) ==
       LET neg == Len(port) >= 1 /\ port[1] = "-"
           body == IF Len(port) >= 1 /\ port[1] \in {"-", "+"}
                   THEN SubSeq(port, 2, Len(port)) ELSE port
           n == IF \E k \in 1..Len(body) : body[k] \notin Digits
                THEN (CHOOSE k \in 1..Len(body) :
                        body[k] \notin Digits /\ AllIn(SubSeq(body, 1, k - 1), Digits)) - 1
                ELSE Len(body)
       IN IF n = 0 THEN [nan |-> TRUE, val |-> 0]
          ELSE [nan |-> FALSE,
                val |-> IF neg THEN 0 - DecVal(SubSeq(body, 1, n))
                        ELSE DecVal(SubSeq(body, 1, n))]

\* the locals of the handler after lines 2416-2447
ParseQuery(qip, qport, qhost, qwsPath) ==
  LET m == ipPortMatch(qip)
      ip == IF m > 0 THEN SubSeq(qip, 1, m - 1) ELSE qip
      port0 == IF m > 0 THEN SubSeq(qip, m + 1, Len(qip)) ELSE qport
      port == IF port0 = <<>> THEN DefaultPortStr ELSE port0
      host == IF qhost = "" THEN DEFAULT_HOST ELSE qhost
      wsPath == IF qwsPath = Undefined THEN DEFAULT_WS_PATH ELSE qwsPath
  IN [ip |-> ip, port |-> port, host |-> host, wsPath |-> wsPath]

(***************************************************************************)
(* resolveDomain (src/start.js 2327-2412).                                 *)
(*                                                                         *)
(* A zone gives the answer of each of the four DNS calls for a name: a     *)
(* sequence of addresses or names, empty when the call fails or has no     *)
(* record.  The call threads st: visited is the Set object shared by the   *)
(* whole recursion (every invocation gets the same object and adds to it,  *)
(* nothing is ever deleted from it); the other fields are history: queries *)
(* lists the DNS calls issued, calls the invocations of resolveDomain,     *)
(* chain the names of the invocations that have not returned yet,          *)
(* descents the names that passed the two guards, cycles the invocations   *)
(* that threw the cycle error, each with the chain it was called from.     *)
(***************************************************************************)
ZGet(f, name) == IF name \in DOMAIN f THEN f[name] ELSE <<>>

\* allIPs.add for each element: a Set keeps insertion order and no duplicate
RECURSIVE AddAll(_, _)
AddAll(ips, more) ==
  IF Len(more) = 0 THEN ips
  ELSE AddAll(IF \E k \in 1..Len(ips) : ips[k] = Head(more) THEN ips
              ELSE Append(ips, Head(more)),
              Tail(more))

\* err.message.includes(word)
Includes(s, word) ==
  \E k \in 1..(Len(s) - Len(word) + 1) : SubSeq(s, k, k + Len(word) - 1) = word

ENOTFOUND == <<"E", "N", "O", "T", "F", "O", "U", "N", "D">>
ENODATA == <<"E", "N", "O", "D", "A", "T", "A">>

Query(st, kind, name) == [st EXCEPT !.queries = Append(@, <<kind, name>>)]

NewResolveState == [visited |-> {}, queries |-> <<>>, calls |-> <<>>,
                    chain |-> <<>>, descents |-> <<>>, cycles |-> <<>>]

\* a resolver that asks for the address records before it looks at its argument
resolveDomainQueryFirst(zone, domain, st0, depth) ==
  LET st == Query([st0 EXCEPT !.calls = Append(@, <<domain, depth>>),
                              !.visited = @ \cup {domain}], "resolve4", domain)
      ips == AddAll(<<>>, ZGet(zone.a, domain))
  IN IF isIPAddress(domain)
     THEN [ok |-> TRUE, ips |-> <<domain>>, err |-> "", st |-> st]
     ELSE IF Len(ips) > 0
     THEN [ok |-> TRUE, ips |-> ips, err |-> "", st |-> st]
     ELSE [ok |-> FALSE, ips |-> <<>>, err |-> "norecords", st |-> st]

RECURSIVE resolveDomain(_, _, _, _)
RECURSIVE ResolveCnames(_, _, _, _, _)

\* the for loop of method 2 (lines 2358-2361): the first target whose
\* resolution throws ends the loop, the addresses already added stay
ResolveCnames(zone, cnames, ips, st, depth) ==
  IF Len(cnames) = 0 THEN [ips |-> ips, st |-> st]
  ELSE LET r == resolveDomain(zone, Head(cnames), st, depth + 1)
       IN IF r.ok
          THEN ResolveCnames(zone, Tail(cnames), AddAll(ips, r.ips), r.st, depth)
          ELSE [ips |-> ips, st |-> r.st]

\* a resolver that never adds a name to visited
resolveDomainForgetful(zone, domain, st0, depth) ==
  LET st == [st0 EXCEPT !.calls = Append(@, <<domain, depth>>)]
  IN IF depth > DNS_MAX_RECURSION_DEPTH
     THEN [ok |-> FALSE, ips |-> <<>>, err |-> "depth", st |-> st]
     ELSE IF domain \in st.visited
     THEN [ok |-> FALSE, ips |-> <<>>, err |-> "cycle",
           st |-> [st EXCEPT !.cycles = Append(@, [name |-> domain, chain |-> st.chain])]]
     ELSE LET stv == [st EXCEPT !.visited = @,
                                !.descents = Append(@, domain),
                                !.chain = Append(@, domain)]
              \* the invocation returns or throws: it leaves the chain
              left(s) == [s EXCEPT !.chain = st0.chain]
          IN IF isIPAddress(domain)
             THEN [ok |-> TRUE, ips |-> <<domain>>, err |-> "", st |-> left(stv)]
             ELSE LET \* method 1: resolve4
                      ips1 == AddAll(<<>>, ZGet(zone.a, domain))
                      st1 == Query(stv, "resolve4", domain)
                      \* method 2: resolveCname and the recursion
                      m2 == ResolveCnames(zone, ZGet(zone.cname, domain), ips1,
                                          Query(st1, "resolveCname", domain), depth)
                      \* method 3: resolve(domain, 'A')
                      ips3 == AddAll(m2.ips, ZGet(zone.any, domain))
                      st3 == Query(m2.st, "resolve", domain)
                      \* method 4: lookup, all addresses, then a single address
                      all == ZGet(zone.lookupAll, domain)
                      ips4 == IF Len(all) > 0 THEN AddAll(ips3, all)
                              ELSE AddAll(ips3, ZGet(zone.lookup, domain))
                      st4 == IF Len(all) > 0 THEN Query(st3, "lookup", domain)
                             ELSE Query(Query(st3, "lookup", domain), "lookup", domain)
                  IN IF Len(ips4) > 0
                     THEN [ok |-> TRUE, ips |-> ips4, err |-> "", st |-> left(st4)]
                     ELSE [ok |-> FALSE, ips |-> <<>>,
                           err |-> IF Includes(domain, ENOTFOUND) \/ Includes(domain, ENODATA)
                                   THEN "notfound" ELSE "norecords",
                           st |-> left(st4)]

resolveDomain(zone, domain, st0, depth) ==
  LET st == [st0 EXCEPT !.calls = Append(@, <<domain, depth>>)]
  IN IF depth > DNS_MAX_RECURSION_DEPTH
     THEN [ok |-> FALSE, ips |-> <<>>, err |-> "depth", st |-> st]
     ELSE IF domain \in st.visited
     THEN [ok |-> FALSE, ips |-> <<>>, err |-> "cycle",
           st |-> [st EXCEPT !.cycles = Append(@, [name |-> domain, chain |-> st.chain])]]
     ELSE LET stv == [st EXCEPT !.visited = @ \cup {domain},
                                !.descents = Append(@, domain),
                                !.chain = Append(@, domain)]
              \* the invocation returns or throws: it leaves the chain
              left(s) == [s EXCEPT !.chain = st0.chain]
          IN IF isIPAddress(domain)
             THEN [ok |-> TRUE, ips |-> <<domain>>, err |-> "", st |-> left(stv)]
             ELSE LET \* method 1: resolve4
                      ips1 == AddAll(<<>>, ZGet(zone.a, domain))
                      st1 == Query(stv, "resolve4", domain)
                      \* method 2: resolveCname and the recursion
                      m2 == ResolveCnames(zone, ZGet(zone.cname, domain), ips1,
                                          Query(st1, "resolveCname", domain), depth)
                      \* method 3: resolve(domain, 'A')
                      ips3 == AddAll(m2.ips, ZGet(zone.any, domain))
                      st3 == Query(m2.st, "resolve", domain)
                      \* method 4: lookup, all addresses, then a single address
                      all == ZGet(zone.lookupAll, domain)
                      ips4 == IF Len(all) > 0 THEN AddAll(ips3, all)
                              ELSE AddAll(ips3, ZGet(zone.lookup, domain))
                      st4 == IF Len(all) > 0 THEN Query(st3, "lookup", domain)
                             ELSE Query(Query(st3, "lookup", domain), "lookup", domain)
                  IN IF Len(ips4) > 0
                     THEN [ok |-> TRUE, ips |-> ips4, err |-> "", st |-> left(st4)]
                     ELSE [ok |-> FALSE, ips |-> <<>>,
                           err |-> IF Includes(domain, ENOTFOUND) \/ Includes(domain, ENODATA)
                                   THEN "notfound" ELSE "norecords",
                           st |-> left(st4)]

(***************************************************************************)
(* State.                                                                  *)
(***************************************************************************)
VARIABLES
  now,           \* Date.now()
  requestCache,  \* Map cacheKey -> {data, timestamp}, in insertion order; wsPath
                 \* is the path the writer of the entry probed with (history)
  rateLimitMap,  \* Map rate key -> {firstRequest, count}, in insertion order
  req,           \* the /api handler invocations in progress, one per slot
  zone,          \* what the DNS answers at this moment
  cfg,           \* the environment of a run: the queries clients send, the
                 \* outcomes the network produces, the feature switches
  call,          \* a direct call of resolveDomain (SpecResolve)
  hist,          \* per client identity, what the rate limiter has decided so
                 \* far (history; the code does not read it)
  probe,         \* one detectSingleIP call followed probe by probe, event by
                 \* event (SpecProbe)
  shadow         \* the cache and the rate map as they would be had the
                 \* periodic sweep never run (history, kept when cfg.shadow)

vars == <<now, requestCache, rateLimitMap, req, zone, cfg, call, hist, probe, shadow>>

(***************************************************************************)
(* Map operations on a sequence of entries with a key field.               *)
(***************************************************************************)
MapHas(m, key) == \E k \in 1..Len(m) : m[k].key = key
MapGet(m, key) == m[CHOOSE k \in 1..Len(m) : m[k].key = key]
\* a set that leaves the entry of an existing key as it is
MapSetKeepsExisting(m, e) == IF MapHas(m, e.key) THEN m ELSE Append(m, e)
\* Map.set: an existing key keeps its position, a new key goes last
MapSet(m, e) ==
  IF MapHas(m, e.key)
  THEN [k \in 1..Len(m) |-> IF m[k].key = e.key THEN e ELSE m[k]]
  ELSE Append(m, e)
RECURSIVE MapFilter(_, _)
\* the entries whose position is in keep, order preserved
MapFilter(m, keep) ==
  IF Len(m) = 0 THEN <<>>
  ELSE LET rest == MapFilter(SubSeq(m, 1, Len(m) - 1), keep)
       IN IF Len(m) \in keep THEN Append(rest, m[Len(m)]) ELSE rest

(***************************************************************************)
(* checkRateLimit (src/start.js 2250-2272).  Returns the verdict and the   *)
(* map after the call.                                                     *)
(***************************************************************************)
\* a limiter that rejects only above the limit (count > MAX_REQUESTS_PER_IP)
checkRateLimitOffByOne(map, client, t) ==
  LET key == <<"rate", client>>
  IN IF ~MapHas(map, key) \/ t - MapGet(map, key).firstRequest > RATE_LIMIT_WINDOW
     THEN [ok |-> TRUE,
           map |-> MapSet(map, [key |-> key, firstRequest |-> t, count |-> 1])]
     ELSE IF MapGet(map, key).count > MAX_REQUESTS_PER_IP
     THEN [ok |-> FALSE, map |-> map]
     ELSE [ok |-> TRUE,
           map |-> MapSet(map, [MapGet(map, key) EXCEPT !.count = @ + 1])]

\* a limiter whose rejection starts the window of the record again
checkRateLimitRejectExtends(map, client, t) ==
  LET key == <<"rate", client>>
  IN IF ~MapHas(map, key) \/ t - MapGet(map, key).firstRequest > RATE_LIMIT_WINDOW
     THEN [ok |-> TRUE,
           map |-> MapSet(map, [key |-> key, firstRequest |-> t, count |-> 1])]
     ELSE IF MapGet(map, key).count >= MAX_REQUESTS_PER_IP
     THEN [ok |-> FALSE,
           map |-> MapSet(map, [MapGet(map, key) EXCEPT !.firstRequest = t])]
     ELSE [ok |-> TRUE,
           map |-> MapSet(map, [MapGet(map, key) EXCEPT !.count = @ + 1])]

\* a limiter that accepts without counting the request in a record it holds
checkRateLimitKeepsCount(map, client, t) ==
  LET key == <<"rate", client>>
  IN IF ~MapHas(map, key) \/ t - MapGet(map, key).firstRequest > RATE_LIMIT_WINDOW
     THEN [ok |-> TRUE,
           map |-> MapSet(map, [key |-> key, firstRequest |-> t, count |-> 1])]
     ELSE IF MapGet(map, key).count >= MAX_REQUESTS_PER_IP
     THEN [ok |-> FALSE, map |-> map]
     ELSE [ok |-> TRUE, map |-> map]

\* a limiter that never opens a new window for a record it still holds
checkRateLimitNoReset(map, client, t) ==
  LET key == <<"rate", client>>
  IN IF ~MapHas(map, key)
     THEN [ok |-> TRUE,
           map |-> MapSet(map, [key |-> key, firstRequest |-> t, count |-> 1])]
     ELSE IF MapGet(map, key).count >= MAX_REQUESTS_PER_IP
     THEN [ok |-> FALSE, map |-> map]
     ELSE [ok |-> TRUE,
           map |-> MapSet(map, [MapGet(map, key) EXCEPT !.count = @ + 1])]

checkRateLimit(map, client, t) ==
  LET key == <<"rate", client>>
  IN IF ~MapHas(map, key) \/ t - MapGet(map, key).firstRequest > RATE_LIMIT_WINDOW
     THEN [ok |-> TRUE,
           map |-> MapSet(map, [key |-> key, firstRequest |-> t, count |-> 1])]
     ELSE IF MapGet(map, key).count >= MAX_REQUESTS_PER_IP
     THEN [ok |-> FALSE, map |-> map]
     ELSE [ok |-> TRUE,
           map |-> MapSet(map, [MapGet(map, key) EXCEPT !.count = @ + 1])]

(***************************************************************************)
(* detectSingleIP (src/start.js 2529-2645): the result object after each   *)
(* of its four steps.  An outcome o names what the GeoIP lookup and the    *)
(* three probes did.  A latency is kept as the fact that it was recorded.  *)
(***************************************************************************)
Null == "null"
\* result.websocket not set / result.geoip = null.  Every field of a GeoIP
\* record is a string here, "" where the database has no value.
NoWebsocket == [connected |-> FALSE, protocol |-> Null, error |-> Null]
NoGeo == [present |-> FALSE, city |-> Null, country |-> Null, countryName |-> Null,
          latitude |-> Null, longitude |-> Null, asn |-> Null, organization |-> Null]

FreshResult(targetIP) ==
  [ip |-> targetIP,
   checks |-> [tls_detect |-> FALSE, ws_real_connect |-> FALSE, cdn_trace |-> FALSE],
   latency |-> {},
   geoip |-> NoGeo,
   cdn |-> [warp |-> "off"],
   websocket |-> NoWebsocket,
   error |-> Null]

\* lines 2549-2564: geo is NoGeo (no database, no record, lookup threw) or the data
AfterGeoIP(result, geo) ==
  IF geo.present THEN [result EXCEPT !.geoip = geo] ELSE result

\* lines 2566-2581: tls is "ok", "error" or "timeout"
AfterTLS(result, tls) ==
  [result EXCEPT !.checks.tls_detect = (tls = "ok"),
                 !.latency = @ \cup {"tls_handshake_ms"}]

\* a WebSocket step that reports a connection whatever the probe did
AfterWebSocketOptimistic(result, disabled, ws, wsProtocol) ==
  [result EXCEPT !.checks.ws_real_connect = TRUE,
                 !.latency = @ \cup {"ws_connect_ms"}]

\* lines 2583-2610: ws is "open" (with the protocol in wsProtocol), "error" or "timeout"
AfterWebSocket(result, disabled, ws, wsProtocol) ==
  IF disabled
  THEN [result EXCEPT !.checks.ws_real_connect = FALSE,
                      !.latency = @ \cup {"ws_connect_ms"}]
  ELSE IF ws = "open"
  THEN [result EXCEPT !.checks.ws_real_connect = TRUE,
                      !.latency = @ \cup {"ws_connect_ms"},
                      !.websocket = [connected |-> TRUE, protocol |-> wsProtocol,
                                       error |-> Null]]
  ELSE [result EXCEPT !.checks.ws_real_connect = FALSE,
                      !.latency = @ \cup {"ws_connect_ms"}]

\* lines 2612-2631: cdn is the object testCDNTrace resolved with
AfterCDNTrace(result, disabled, cdn) ==
  IF disabled
  THEN [result EXCEPT !.checks.cdn_trace = FALSE]
  ELSE [result EXCEPT !.checks.cdn_trace = cdn.success,
                      !.cdn.warp = IF cdn.warp # "" THEN cdn.warp ELSE @]

\* An exception that no step catches (o.excAt names the step it escapes from,
\* "start" for the code before the GeoIP lookup, "" when there is none) goes
\* to the outer catch, lines 2639-2644: the steps after it do not run, and
\* the result so far is returned with error = err.message.
detectSingleIP(targetIP, o, config) ==
  LET r0 == FreshResult(targetIP)
      r1 == AfterGeoIP(r0, o.geo)
      r2 == AfterTLS(r1, o.tls)
      r3 == AfterWebSocket(r2, config.disableWs, o.ws, o.wsProtocol)
      r4 == AfterCDNTrace(r3, config.disableCdn, o.cdn)
      caught(r) == [r EXCEPT !.error = o.excMessage]
  IN CASE o.excAt = "start" -> caught(r0)
       [] o.excAt = "geoip" -> caught(r1)
       [] o.excAt = "tls" -> caught(r2)
       [] o.excAt = "ws" -> caught(r3)
       [] o.excAt = "cdn" -> caught(r4)
       [] OTHER -> r4

\* lines 2685-2711: cleanedResults
OrNull(v) == IF v = "" THEN Null ELSE v
Cleaned(r) ==
  [ip |-> r.ip,
   checks |-> r.checks,
   latency |-> r.latency,
   geoip |-> IF r.geoip.present
             THEN [present |-> TRUE,
                   city |-> OrNull(r.geoip.city),
                   country |-> OrNull(r.geoip.country),
                   countryName |-> OrNull(r.geoip.countryName),
                   latitude |-> OrNull(r.geoip.latitude),
                   longitude |-> OrNull(r.geoip.longitude),
                   asn |-> OrNull(r.geoip.asn),
                   organization |-> OrNull(r.geoip.organization)]
             ELSE NoGeo,
   cdn |-> [warp |-> IF r.cdn.warp = "" THEN "off" ELSE r.cdn.warp],
   websocket |-> IF r.websocket.connected
                 THEN [connected |-> TRUE, protocol |-> OrNull(r.websocket.protocol),
                       error |-> Null]
                 ELSE NoWebsocket]

(***************************************************************************)
(* The /api handler (src/start.js 2415-2766).                              *)
(*                                                                         *)
(* A slot of req holds the locals of one invocation.  pc is where it is    *)
(* suspended: "resolving" at await resolveDomain (line 2464), "detecting"  *)
(* at await Promise.all (line 2659), "done" once the response is sent.     *)
(* dnsQueries, started, steps, arrivedAt, expect, rate, cacheAge and        *)
(* outs record what the invocation did and saw; the code does not read     *)
(* them:                                                                   *)
(*   dnsQueries  the number of DNS calls issued for the request            *)
(*   started     the number of detectSingleIP calls started for it         *)
(*   steps       the gates it went through, in order                       *)
(*   expect      the payload the cache held for its key, fresh, on arrival *)
(*   rate        its call of checkRateLimit: the time, the record found,   *)
(*               the verdict, the record left, and since which window      *)
(*               start the identity's quota was known to be used up        *)
(*   cacheAge    the age of the cache entry found at the cache check       *)
(*   outs        for each target address whose detectSingleIP call has     *)
(*               returned, what the network did to its probes              *)
(*   twin        where the same lines of the handler would have taken it   *)
(*               with the maps of shadow                                   *)
(***************************************************************************)
NoRecord == [present |-> FALSE, firstRequest |-> 0, count |-> 0]
RecordOf(map, client) ==
  IF MapHas(map, <<"rate", client>>)
  THEN [present |-> TRUE,
        firstRequest |-> MapGet(map, <<"rate", client>>).firstRequest,
        count |-> MapGet(map, <<"rate", client>>).count]
  ELSE NoRecord
NoRate == [checked |-> FALSE, at |-> 0, before |-> NoRecord, ok |-> FALSE,
           after |-> NoRecord, exhausted |-> -1]
NoAge == -1
NoBody ==
  [kind |-> "none", error |-> "", message |-> "", input |-> <<>>, isDomain |-> FALSE,
   port |-> 0, resolvedIPs |-> <<>>, results |-> <<>>, timestamp |-> 0, host |-> Null]

\* what the request would have met with the maps no periodic sweep has touched
NoTwin == [checked |-> FALSE, pc |-> "idle", status |-> 0, body |-> NoBody, ok |-> FALSE,
           known |-> FALSE, age |-> NoAge]

ErrorBody(error, message) == [NoBody EXCEPT !.kind = "error", !.error = error, !.message = message]

IdleReq ==
  [pc |-> "idle", ip |-> <<>>, port |-> <<>>, host |-> "", wsPath |-> "", client |-> "",
   isIP |-> FALSE, isDomainName |-> FALSE, targetIPs |-> <<>>, targetPort |-> 0,
   i |-> 0, pending |-> {}, batchResults |-> <<>>, results |-> <<>>,
   status |-> 0, body |-> NoBody,
   dnsQueries |-> 0, started |-> 0, steps |-> <<>>, arrivedAt |-> 0, expect |-> NoBody,
   rate |-> NoRate, cacheAge |-> NoAge, outs |-> <<>>, twin |-> NoTwin]

\* the history of the limiter's verdicts for one identity: log lists the
\* verdicts since the identity last started without a record in force (the
\* first MaxLog of them), exhausted is the start of the window in which its
\* counter reached the limit (-1: none), last is the time of its latest call
\* of checkRateLimit (-1: none)
MaxLog == MAX_REQUESTS_PER_IP + 2
NoHist == [log |-> <<>>, exhausted |-> -1, last |-> -1]
HistAfter(h, before, after, ok) ==
  [log |-> IF ~before.present \/ after.firstRequest # before.firstRequest
           THEN <<ok>>
           ELSE IF Len(h.log) < MaxLog THEN Append(h.log, ok) ELSE h.log,
   exhausted |-> IF after.count >= MAX_REQUESTS_PER_IP THEN after.firstRequest
                 ELSE h.exhausted,
   last |-> h.last]

\* lines 2508-2517.  `domain_${ip}_${targetPort}_${host}` determines the four
\* parts (ip holds no "_"), so the key is the tuple of them.
cacheKey(rq) ==
  <<IF rq.isDomainName THEN "domain" ELSE "ip", rq.ip, rq.targetPort, rq.host>>

\* a validity test that still serves an entry of age CACHE_DURATION
CacheFreshInclusive(cache, key, t) ==
  MapHas(cache, key) /\ t - MapGet(cache, key).timestamp <= CACHE_DURATION

\* line 2520: cached && Date.now() - cached.timestamp < CACHE_DURATION
CacheFresh(cache, key, t) ==
  MapHas(cache, key) /\ t - MapGet(cache, key).timestamp < CACHE_DURATION

\* res.status(code).json(body)
Respond(rq, code, body) ==
  [rq EXCEPT !.pc = "done", !.status = code, !.body = body,
             !.steps = Append(@, "respond")]

Min(a, b) == IF a < b THEN a ELSE b

\* a slice of the whole list from the start, whatever i is
BatchSliceFromStart(targetIPs, i) ==
  SubSeq(targetIPs, 1, Min(MAX_CONCURRENT, Len(targetIPs)))
\* a slice that is not cut at MAX_CONCURRENT
BatchSliceUncut(targetIPs, i) ==
  SubSeq(targetIPs, i + 1, Len(targetIPs))
\* targetIPs.slice(i, i + MAX_CONCURRENT), line 2658
BatchSlice(targetIPs, i) ==
  SubSeq(targetIPs, i + 1, Min(i + MAX_CONCURRENT, Len(targetIPs)))

\* a loop whose calls of one batch all work on the result object of the
\* first one
StartBatchSharedResult(rq) ==
  LET batch == BatchSlice(rq.targetIPs, rq.i)
  IN [rq EXCEPT !.pc = "detecting",
                !.pending = 1..Len(batch),
                !.batchResults = [k \in 1..Len(batch) |-> FreshResult(batch[1])],
                !.started = @ + Len(batch)]

\* one turn of the for loop at lines 2657-2659: the slice is mapped to
\* detectSingleIP calls, which all start before Promise.all is awaited
StartBatch(rq) ==
  LET batch == BatchSlice(rq.targetIPs, rq.i)
  IN [rq EXCEPT !.pc = "detecting",
                !.pending = 1..Len(batch),
                !.batchResults = [k \in 1..Len(batch) |-> FreshResult(batch[k])],
                !.started = @ + Len(batch)]

\* lines 2713-2746: the response of a completed detection
BuildResponse(rq, cleanedResults, t) ==
  [kind |-> IF Len(rq.targetIPs) = 1 THEN "single" ELSE "multi",
   error |-> "", message |-> "",
   input |-> rq.ip,
   isDomain |-> rq.isDomainName,
   port |-> rq.targetPort,
   resolvedIPs |-> IF Len(rq.targetIPs) = 1 THEN <<>> ELSE rq.targetIPs,
   results |-> cleanedResults,
   timestamp |-> t,
   host |-> IF rq.host = DEFAULT_HOST THEN Null ELSE rq.host]

\* a limit test that lets one address more through
TooManyIPsOffByOne(targetIPs) == Len(targetIPs) > MAX_IP_COUNT + 1

\* line 2484: targetIPs.length > MAX_IP_COUNT
TooManyIPs(targetIPs) == Len(targetIPs) > MAX_IP_COUNT

\* lines 2482-2526 and the start of the loop: what the handler does, without
\* suspending, once targetIPs is known.  Gives the slot, the rate map and the
\* history of the client.
Gate(rq0, targetIPs, cache, rates, t, h) ==
  LET rl == checkRateLimit(rates, rq0.client, t)
      tp == parseInt(rq0.port)
      before == RecordOf(rates, rq0.client)
      after == RecordOf(rl.map, rq0.client)
      h2 == [HistAfter(h, before, after, rl.ok) EXCEPT !.last = t]
      rq1 == [rq0 EXCEPT !.targetIPs = targetIPs]
      rq2 == [rq1 EXCEPT !.steps = Append(@, "ratelimit"),
                         !.rate = [checked |-> TRUE, at |-> t, before |-> before,
                                   ok |-> rl.ok, after |-> after,
                                   exhausted |-> h.exhausted]]
      key == cacheKey([rq2 EXCEPT !.targetPort = tp.val])
      rq3 == [rq2 EXCEPT !.targetPort = tp.val, !.steps = Append(@, "cache"),
                         !.cacheAge = IF MapHas(cache, key)
                                      THEN t - MapGet(cache, key).timestamp ELSE NoAge]
  IN IF TooManyIPs(targetIPs)
     THEN [rq |-> Respond(rq1, 400, ErrorBody("too many IPs", "count")),
           rates |-> rates, hist |-> h]
     ELSE IF ~rl.ok
     THEN [rq |-> Respond(rq2, 429, ErrorBody("too many requests", "retry later")),
           rates |-> rl.map, hist |-> h2]
     ELSE IF tp.nan \/ tp.val < 1 \/ tp.val > 65535
     THEN [rq |-> Respond(rq2, 400, ErrorBody("invalid port", "1-65535")),
           rates |-> rl.map, hist |-> h2]
     ELSE IF CacheFresh(cache, key, t)
     THEN [rq |-> Respond(rq3, 200, MapGet(cache, key).data),
           rates |-> rl.map, hist |-> h2]
     ELSE [rq |-> StartBatch([rq3 EXCEPT !.steps = Append(@, "detect")]),
           rates |-> rl.map, hist |-> h2]

\* The same request let through the same lines of the handler with the maps
\* of shadow: twin is what it would have been answered, or that it would have
\* started its detection (history).
WithTwin(rq, rqs) ==
  IF cfg.shadow
  THEN [rq EXCEPT !.twin = [checked |-> TRUE, pc |-> rqs.pc, status |-> rqs.status,
                            body |-> rqs.body, ok |-> rqs.rate.ok,
                            known |-> rqs.rate.before.present, age |-> rqs.cacheAge]]
  ELSE rq
ShadowAfterGate(rates) == IF cfg.shadow THEN [shadow EXCEPT !.rates = rates] ELSE shadow
ShadowAfterSet(entry) ==
  IF cfg.shadow THEN [shadow EXCEPT !.cache = MapSet(@, entry)] ELSE shadow

\* the payload a request with this query would get from the cache on arrival
ExpectAt(rq, cache, t) ==
  LET tp == parseInt(rq.port)
      key == cacheKey([rq EXCEPT !.targetPort = tp.val])
  IN IF ~tp.nan /\ CacheFresh(cache, key, t) THEN MapGet(cache, key).data ELSE NoBody

\* A request arrives: lines 2416-2454, then either the await of resolveDomain
\* or, for a target that is no domain, the rest of the handler up to the
\* first batch.
Arrive(r) ==
  /\ r \in cfg.slots
  \* the slot is free; cfg.reuse says whether the clients go on sending once
  \* every slot has had its request
  /\ req[r].pc = "idle" \/ (req[r].pc = "done" /\ cfg.reuse)
  \* a request takes the lowest free slot
  /\ \A r2 \in cfg.slots : r2 < r => req[r2].pc \notin {"idle", "done"}
  /\ \E q \in cfg.queries, client \in cfg.clients :
       LET p == ParseQuery(q.ip, q.port, q.host, q.wsPath)
           rq == [IdleReq EXCEPT !.ip = p.ip, !.port = p.port, !.host = p.host,
                                 !.wsPath = p.wsPath, !.client = client,
                                 !.isIP = isIPAddress(p.ip),
                                 !.isDomainName = isDomain(p.ip),
                                 !.arrivedAt = now]
           rqe == [rq EXCEPT !.expect = ExpectAt(rq, requestCache, now)]
           g == Gate(rqe, <<p.ip>>, requestCache, rateLimitMap, now, hist[client])
           gs == Gate(rqe, <<p.ip>>, shadow.cache, shadow.rates, now, hist[client])
       IN IF Len(q.ip) = 0
          THEN /\ req' = [req EXCEPT ![r] =
                            Respond(rq, 400, ErrorBody("missing parameter", "ip"))]
               /\ UNCHANGED <<rateLimitMap, hist, shadow>>
          ELSE IF ~rq.isIP /\ ~rq.isDomainName
          THEN /\ req' = [req EXCEPT ![r] =
                            Respond(rq, 400, ErrorBody("invalid target", "ip or domain"))]
               /\ UNCHANGED <<rateLimitMap, hist, shadow>>
          ELSE IF rq.isDomainName
          THEN /\ req' = [req EXCEPT ![r] =
                            [rqe EXCEPT !.pc = "resolving", !.steps = <<"resolve">>]]
               /\ UNCHANGED <<rateLimitMap, hist, shadow>>
          ELSE /\ req' = [req EXCEPT ![r] = WithTwin(g.rq, gs.rq)]
               /\ rateLimitMap' = g.rates
               /\ hist' = [hist EXCEPT ![client] = g.hist]
               /\ shadow' = ShadowAfterGate(gs.rates)
  /\ UNCHANGED <<now, requestCache, zone, cfg, call, probe>>

\* resolveDomain settles (lines 2464-2476), then the rest of the handler up
\* to the first batch.  The resolution sees the zone of this moment.
ResolveDone(r) ==
  /\ req[r].pc = "resolving"
  /\ LET res == resolveDomain(zone, req[r].ip, NewResolveState, 0)
         rq == [req[r] EXCEPT !.dnsQueries = Len(res.st.queries)]
         g == Gate(rq, res.ips, requestCache, rateLimitMap, now, hist[rq.client])
         gs == Gate(rq, res.ips, shadow.cache, shadow.rates, now, hist[rq.client])
     IN IF ~res.ok
        THEN /\ req' = [req EXCEPT ![r] =
                          Respond(rq, 400, ErrorBody("DNS resolution failed", res.err))]
             /\ UNCHANGED <<rateLimitMap, hist, shadow>>
        ELSE IF Len(res.ips) = 0
        THEN /\ req' = [req EXCEPT ![r] =
                          Respond(rq, 400, ErrorBody("DNS resolution failed", "no address"))]
             /\ UNCHANGED <<rateLimitMap, hist, shadow>>
        ELSE /\ req' = [req EXCEPT ![r] = WithTwin(g.rq, gs.rq)]
             /\ rateLimitMap' = g.rates
             /\ hist' = [hist EXCEPT ![rq.client] = g.hist]
             /\ shadow' = ShadowAfterGate(gs.rates)
  /\ UNCHANGED <<now, requestCache, zone, cfg, call, probe>>

\* a loop that stores a response in the cache at the end of every batch
DetectReturnCachesEachBatch(r, k) ==
  /\ req[r].pc = "detecting"
  /\ k \in req[r].pending
  /\ \E o \in cfg.outcomes :
       LET rq == req[r]
           res == detectSingleIP(rq.batchResults[k].ip, o, cfg)
           rq1 == [rq EXCEPT !.pending = @ \ {k}, !.batchResults[k] = res,
                             !.outs = ((rq.i + k) :> o) @@ @]
           rq2 == [rq1 EXCEPT !.results = @ \o rq1.batchResults,
                              !.i = @ + MAX_CONCURRENT,
                              !.batchResults = <<>>]
           response == BuildResponse(rq2, [j \in 1..Len(rq2.results) |->
                                              Cleaned(rq2.results[j])], now)
           written == MapSet(requestCache,
                             [key |-> cacheKey(rq2), data |-> response,
                              timestamp |-> now, wsPath |-> rq2.wsPath])
       IN IF rq1.pending # {}
          THEN /\ req' = [req EXCEPT ![r] = rq1]
               /\ requestCache' = requestCache
               /\ shadow' = shadow
          ELSE IF rq2.i < Len(rq2.targetIPs)
          THEN /\ req' = [req EXCEPT ![r] = StartBatch(rq2)]
               /\ requestCache' = written
               /\ shadow' = ShadowAfterSet([key |-> cacheKey(rq2), data |-> response,
                                            timestamp |-> now, wsPath |-> rq2.wsPath])
          ELSE /\ req' = [req EXCEPT ![r] =
                            Respond([rq2 EXCEPT !.steps = Append(@, "cachewrite")],
                                    200, response)]
               /\ requestCache' = written
               /\ shadow' = ShadowAfterSet([key |-> cacheKey(rq2), data |-> response,
                                            timestamp |-> now, wsPath |-> rq2.wsPath])
  /\ UNCHANGED <<now, rateLimitMap, zone, cfg, call, hist, probe>>

\* One detectSingleIP call of the current batch returns.  When it is the
\* last of its batch, Promise.all resolves and the loop goes on in the same
\* turn: the results are pushed, and either the next batch starts or the
\* response is built, cached and sent (lines 2660-2765).
DetectReturn(r, k) ==
  /\ req[r].pc = "detecting"
  /\ k \in req[r].pending
  /\ \E o \in cfg.outcomes :
       LET rq == req[r]
           res == detectSingleIP(rq.batchResults[k].ip, o, cfg)
           rq1 == [rq EXCEPT !.pending = @ \ {k}, !.batchResults[k] = res,
                             !.outs = ((rq.i + k) :> o) @@ @]
           rq2 == [rq1 EXCEPT !.results = @ \o rq1.batchResults,
                              !.i = @ + MAX_CONCURRENT,
                              !.batchResults = <<>>]
           response == BuildResponse(rq2, [j \in 1..Len(rq2.results) |->
                                              Cleaned(rq2.results[j])], now)
       IN IF rq1.pending # {}
          THEN /\ req' = [req EXCEPT ![r] = rq1]
               /\ UNCHANGED <<requestCache, shadow>>
          ELSE IF rq2.i < Len(rq2.targetIPs)
          THEN /\ req' = [req EXCEPT ![r] = StartBatch(rq2)]
               /\ UNCHANGED <<requestCache, shadow>>
          ELSE /\ req' = [req EXCEPT ![r] =
                            Respond([rq2 EXCEPT !.steps = Append(@, "cachewrite")],
                                    200, response)]
               /\ requestCache' = MapSet(requestCache,
                                         [key |-> cacheKey(rq2), data |-> response,
                                          timestamp |-> now, wsPath |-> rq2.wsPath])
               /\ shadow' = ShadowAfterSet([key |-> cacheKey(rq2), data |-> response,
                                            timestamp |-> now, wsPath |-> rq2.wsPath])
  /\ UNCHANGED <<now, rateLimitMap, zone, cfg, call, hist, probe>>

(***************************************************************************)
(* The sweeps.                                                             *)
(***************************************************************************)
\* lines 1459-1472 and 2281-2294: the entries that are not deleted
UnexpiredCache(cache, t) ==
  MapFilter(cache, {k \in 1..Len(cache) : ~(t - cache[k].timestamp > CACHE_DURATION)})
\* a sweep that deletes a rate record as soon as its window is half over
UnexpiredRatesHalfWindow(rates, t) ==
  MapFilter(rates, {k \in 1..Len(rates) :
                      ~(t - rates[k].firstRequest > RATE_LIMIT_WINDOW \div 2)})
UnexpiredRates(rates, t) ==
  MapFilter(rates, {k \in 1..Len(rates) : ~(t - rates[k].firstRequest > RATE_LIMIT_WINDOW * 2)})

\* entries.sort(by age).slice(0, floor(length / 2)) are deleted: Array.sort is
\* stable, so equal ages keep the Map's order.  ages[k] is the sort key of m[k].
DropOldestHalf(m, ages) ==
  LET rank(k) == Cardinality({j \in 1..Len(m) :
                    ages[j] < ages[k] \/ (ages[j] = ages[k] /\ j < k)})
  IN MapFilter(m, {k \in 1..Len(m) : ~(rank(k) < Len(m) \div 2)})

\* performMemoryCleanup(force) with heap above the cleanup threshold or not
\* (lines 1444-1525): the two maps after the call
performMemoryCleanup(cache, rates, t, force, heapHigh) ==
  LET c1 == UnexpiredCache(cache, t)
      r1 == UnexpiredRates(rates, t)
  IN IF force \/ heapHigh
     THEN [cache |-> IF Len(c1) > CACHE_PRESSURE_SIZE
                     THEN DropOldestHalf(c1, [k \in 1..Len(c1) |-> c1[k].timestamp])
                     ELSE c1,
           rates |-> IF Len(r1) > RATE_PRESSURE_SIZE
                     THEN DropOldestHalf(r1, [k \in 1..Len(r1) |-> r1[k].firstRequest])
                     ELSE r1]
     ELSE [cache |-> c1, rates |-> r1]

\* the setInterval callback of lines 2276-2299
PeriodicSweep ==
  /\ requestCache' = UnexpiredCache(requestCache, now)
  /\ rateLimitMap' = UnexpiredRates(rateLimitMap, now)
  /\ UNCHANGED <<now, req, zone, cfg, shadow, call, hist, probe>>

\* the setInterval callback of lines 1528-1555 with the heap above the
\* cleanup threshold: one forced cleanup, and a second one when the heap is
\* above the critical threshold too
MemoryCheck ==
  /\ \E critical \in BOOLEAN :
       LET m1 == performMemoryCleanup(requestCache, rateLimitMap, now, TRUE, TRUE)
           m2 == performMemoryCleanup(m1.cache, m1.rates, now, TRUE, TRUE)
       IN /\ requestCache' = IF critical THEN m2.cache ELSE m1.cache
          /\ rateLimitMap' = IF critical THEN m2.rates ELSE m1.rates
  /\ UNCHANGED <<now, req, zone, cfg, shadow, call, hist, probe>>

(***************************************************************************)
(* The environment: time passes, the DNS changes its answers.              *)
(***************************************************************************)
TickClock ==
  /\ now + cfg.tick <= cfg.maxNow
  /\ now' = now + cfg.tick
  /\ UNCHANGED <<requestCache, rateLimitMap, req, zone, cfg, shadow, call, hist, probe>>

ZoneChange ==
  /\ \E z \in cfg.zones : z # zone /\ zone' = z
  /\ UNCHANGED <<now, requestCache, rateLimitMap, req, cfg, shadow, call, hist, probe>>

(***************************************************************************)
(* The inputs of the runs.                                                 *)
(***************************************************************************)
Addr(k) == <<"1", ".", "1", ".", "1", ".", CHOOSE d \in Digits : DigitVal(d) = k>>
AddrList(n) == [k \in 1..n |-> Addr(k)]
IPv4Literal == Addr(1)
IPv6Literal == <<":", ":", "a">>
DomainName == <<"a", ".", "g">>

EmptyZone == [a |-> <<>>, cname |-> <<>>, any |-> <<>>, lookupAll |-> <<>>, lookup |-> <<>>]
\* the name has more addresses than one batch holds
ZoneUp == [EmptyZone EXCEPT !.a = [n \in {DomainName} |-> AddrList(MAX_CONCURRENT + 1)]]
\* the name has more addresses than a request may probe
ZoneBig == [EmptyZone EXCEPT !.a = [n \in {DomainName} |-> AddrList(MAX_IP_COUNT + 1)]]

GeoHit == [present |-> TRUE, city |-> "", country |-> "US", countryName |-> "United States",
           latitude |-> "37.7", longitude |-> "-97.8", asn |-> "13335",
           organization |-> "CLOUDFLARENET"]
CdnOk(warp) == [success |-> TRUE, warp |-> warp, reason |-> ""]
CdnFail(reason) == [success |-> FALSE, warp |-> "off", reason |-> reason]

AllOk == [geo |-> GeoHit, tls |-> "ok", ws |-> "open", wsProtocol |-> "", cdn |-> CdnOk("off"),
          excAt |-> "", excMessage |-> ""]
AllFail == [geo |-> NoGeo, tls |-> "timeout", ws |-> "timeout", wsProtocol |-> "",
            cdn |-> CdnFail("timeout"), excAt |-> "", excMessage |-> ""]

Query0(ip) == [ip |-> ip, port |-> <<>>, host |-> "", wsPath |-> Undefined]

Slots == {1, 2}
IdleCall == [pc |-> "idle", domain |-> <<>>, ok |-> FALSE, ips |-> <<>>, err |-> "",
             queries |-> <<>>, calls |-> <<>>, visited |-> {},
             descents |-> <<>>, cycles |-> <<>>]

\* the name has one address
ZoneOne == [EmptyZone EXCEPT !.a = [n \in {DomainName} |-> AddrList(1)]]

(***************************************************************************)
(* The probes (src/start.js 2808-3013), event by event.                    *)
(*                                                                         *)
(* testTLS and testCDNTrace give https.request the option timeout: the     *)
(* 'timeout' event comes when the socket has been idle for that long, and  *)
(* any traffic on the socket starts the wait again.  testWebSocket arms a  *)
(* setTimeout of its own, which nothing re-arms.  probe.idle is the time   *)
(* since the last traffic, probe.elapsed the time since setTimeout.  A     *)
(* settle record says how the promise of a probe ended; by names the       *)
(* handler that ended it.  probe.calls lists the probe functions called so *)
(* far (history).  isResolved and timeout are the locals of testWebSocket   *)
(* (timeout is Null or "armed"); settles counts its calls of resolve and   *)
(* reject, late holds the events its handlers got after it had settled     *)
(* (history).  conn is the state of the connection of each probe, opened   *)
(* the number of connections each probe has started (history).             *)
(***************************************************************************)
WordChars == AlNum \cup {"_"}
WhiteSpace == {" ", "\n"}

\* !data?.trim()
TrimIsEmpty(data) == AllIn(data, WhiteSpace)

\* data.match(/warp=(\w+)/): the text of the group, <<>> without a match
WarpKey == <<"w", "a", "r", "p", "=">>
warpMatch(data) ==
  LET starts == {k \in 1..(Len(data) - Len(WarpKey)) :
                   /\ SubSeq(data, k, k + Len(WarpKey) - 1) = WarpKey
                   /\ data[k + Len(WarpKey)] \in WordChars}
  IN IF starts = {} THEN <<>>
     ELSE LET k == CHOOSE x \in starts : \A y \in starts : x <= y
              from == k + Len(WarpKey)
              last == CHOOSE j \in from..Len(data) :
                        /\ AllIn(SubSeq(data, from, j), WordChars)
                        /\ (j = Len(data) \/ data[j + 1] \notin WordChars)
          IN SubSeq(data, from, last)

Pending(value) == [how |-> "pending", by |-> "", value |-> value]
Resolved(by, value) == [how |-> "resolved", by |-> by, value |-> value]
Rejected(by, value) == [how |-> "rejected", by |-> by, value |-> value]

\* testTLS, lines 2823-2834
tlsOnResponse == Resolved("response", "")
tlsOnError(message) ==
  Rejected("error", IF message = "" THEN "TLS connection failed" ELSE message)
tlsOnTimeout == Rejected("timeout", "TLS connection timed out (3 s)")

\* testWebSocket, lines 2897-2946
wsOnOpen(protocol) ==
  Resolved("open", [connected |-> TRUE, protocol |-> OrNull(protocol), error |-> Null])
wsOnTimer ==
  Rejected("timer", [NoWebsocket EXCEPT !.error = "connect timed out (3 s)"])
wsOnError(message) ==
  Rejected("error",
    [NoWebsocket EXCEPT !.error =
       IF message \in {"EACCES", "permission denied", "EPERM"}
       THEN "WebSocket detection not supported here (permissions)"
       ELSE IF message = "ECONNREFUSED" THEN "WebSocket connection refused"
       ELSE IF message \in {"ETIMEDOUT", "timeout"} THEN "WebSocket connection timed out"
       ELSE IF message \in {"ENOTFOUND", "getaddrinfo"} THEN "cannot resolve the target"
       ELSE IF message = "" THEN "WebSocket connection failed" ELSE message])

\* a trace probe that rejects when the request fails
cdnOnErrorRejects(message) ==
  Rejected("error", [success |-> FALSE, warp |-> "off",
                     reason |-> IF message = "" THEN "connection failed" ELSE message])

\* testCDNTrace, lines 2981-3009
HttpStatusCodes == {200, 403, 404, 500}
HttpText(statusCode) ==
  CASE statusCode = 403 -> "HTTP 403" [] statusCode = 404 -> "HTTP 404"
    [] statusCode = 500 -> "HTTP 500" [] OTHER -> "HTTP 200"
EndpointUnavailable(statusCode) ==
  IF statusCode = 404 THEN "endpoint unavailable (HTTP 404)"
  ELSE "endpoint unavailable (HTTP 403)"
cdnOnEnd(statusCode, data) ==
  IF statusCode # 200 \/ TrimIsEmpty(data)
  THEN Resolved("end",
         [success |-> FALSE, warp |-> "off",
          reason |-> IF statusCode = 404 \/ statusCode = 403
                     THEN EndpointUnavailable(statusCode)
                     ELSE IF statusCode # 200 THEN HttpText(statusCode)
                     ELSE "empty response"])
  ELSE Resolved("end",
         [success |-> TRUE,
          warp |-> IF warpMatch(data) = <<"o", "n">> THEN "on" ELSE "off",
          reason |-> ""])
cdnOnError(message) ==
  Resolved("error", [success |-> FALSE, warp |-> "off",
                     reason |-> IF message = "" THEN "connection failed" ELSE message])
cdnOnTimeout ==
  Resolved("timeout", [success |-> FALSE, warp |-> "off",
                       reason |-> "request timed out (3 s)"])

\* lines 2620-2631: the trace step of detectSingleIP, for a promise that
\* resolved and for one that rejected
AfterCDNSettled(result, settled) ==
  IF settled.how = "resolved" THEN AfterCDNTrace(result, FALSE, settled.value)
  ELSE [result EXCEPT !.checks.cdn_trace = FALSE]

\* What the handlers of a probe do to its connection (history).  An https
\* request is "connecting" from req.end() on, "open" once the head of the
\* response has come, "released" when the response has been read to its end
\* (the socket goes back to the agent), "failed" after an 'error' event and
\* "destroyed" after req.destroy().  Only the 'timeout' handlers call
\* req.destroy() (lines 2832, 3007); the 'response' callback of testTLS (lines
\* 2823-2825) resolves and neither reads the response nor ends the request.
httpsConnAfter(by, conn) ==
  CASE by = "timeout" -> "destroyed"
    [] by = "error" -> "failed"
    [] by = "end" -> "released"
    [] by = "response" -> "open"
    [] OTHER -> conn

\* an 'open' handler that resolves without closing the socket
wsConnAfterKeepsOpen(by, readyState) ==
  CASE by = "open" -> "open"
    [] by = "timer" -> IF readyState \in {"connecting", "open"} THEN "closing"
                       ELSE readyState
    [] by = "error" -> "closing"
    [] OTHER -> readyState

\* ws.readyState after a handler of testWebSocket has run: 'open' calls
\* ws.close() (line 2922), the timer callback calls ws.terminate() when the
\* socket is connecting or open (lines 2905-2907); the library emits 'error'
\* when it has given the connection up.
wsConnAfter(by, readyState) ==
  CASE by = "open" -> "closing"
    [] by = "timer" -> IF readyState \in {"connecting", "open"} THEN "closing"
                       ELSE readyState
    [] by = "error" -> "closing"
    [] OTHER -> readyState

NoCdnValue == [success |-> FALSE, warp |-> "", reason |-> ""]
IdleProbe ==
  [pc |-> "idle", result |-> FreshResult(<<>>), idle |-> 0, elapsed |-> 0,
   statusCode |-> 0, data |-> <<>>, chunks |-> 0, calls |-> <<>>,
   isResolved |-> FALSE, timeout |-> Null, settles |-> 0, late |-> {},
   conn |-> [tls |-> "none", ws |-> "none", cdn |-> "none"],
   opened |-> [tls |-> 0, ws |-> 0, cdn |-> 0],
   tls |-> Pending(""), ws |-> Pending(NoWebsocket), cdn |-> Pending(NoCdnValue)]

\* what the trace endpoint may send
WarpOnChunk == WarpKey \o <<"o", "n", "\n">>
WarpOffChunk == WarpKey \o <<"o", "f", "f", "\n">>
Chunks == {<<" ">>, <<"f", "l", "=", "1", "\n">>, WarpOnChunk, WarpOffChunk}

\* a detection that starts its three probes together
DetectStartAllAtOnce ==
  /\ probe.pc = "idle"
  /\ \E geo \in {NoGeo, GeoHit} :
       probe' = [IdleProbe EXCEPT !.pc = "tls",
                                  !.calls = <<"testTLS", "testWebSocket", "testCDNTrace">>,
                                  !.conn = [tls |-> "connecting", ws |-> "connecting",
                                            cdn |-> "connecting"],
                                  !.opened = [tls |-> 1, ws |-> 1, cdn |-> 1],
                                  !.result = AfterGeoIP(FreshResult(IPv4Literal), geo)]
  /\ UNCHANGED <<now, requestCache, rateLimitMap, req, zone, cfg, shadow, call, hist>>

\* detectSingleIP is called: the GeoIP lookup, then testTLS sends its request
DetectStart ==
  /\ probe.pc = "idle"
  /\ \E geo \in {NoGeo, GeoHit} :
       probe' = [IdleProbe EXCEPT !.pc = "tls", !.calls = <<"testTLS">>,
                                  !.conn.tls = "connecting", !.opened.tls = 1,
                                  !.result = AfterGeoIP(FreshResult(IPv4Literal), geo)]
  /\ UNCHANGED <<now, requestCache, rateLimitMap, req, zone, cfg, shadow, call, hist>>

\* bytes move on the socket of an https request: the idle time starts again
SocketActivity ==
  /\ probe.pc \in {"tls", "cdn"}
  /\ probe.idle > 0
  /\ probe' = [probe EXCEPT !.idle = 0]
  /\ UNCHANGED <<now, requestCache, rateLimitMap, req, zone, cfg, shadow, call, hist>>

\* time passes for the probe in flight, up to the moment its timer is due
TimePasses ==
  /\ \/ /\ probe.pc = "tls" /\ probe.idle < TLS_TIMEOUT
        /\ probe' = [probe EXCEPT !.idle = @ + ProbeTick]
     \/ /\ probe.pc = "cdn" /\ probe.idle < CDN_TRACE_TIMEOUT
        /\ probe' = [probe EXCEPT !.idle = @ + ProbeTick]
     \/ /\ probe.pc = "ws" /\ probe.elapsed < WEBSOCKET_TIMEOUT
        /\ probe' = [probe EXCEPT !.elapsed = @ + ProbeTick]
  /\ UNCHANGED <<now, requestCache, rateLimitMap, req, zone, cfg, shadow, call, hist>>

\* a detection that gives up after a failed TLS probe
TlsSettlesStopsOnFailure(settled) ==
  probe' = [probe EXCEPT
              !.tls = settled,
              !.result = AfterTLS(@, IF settled.how = "resolved" THEN "ok" ELSE settled.by),
              !.pc = IF settled.how = "resolved" THEN "ws" ELSE "done",
              !.calls = IF settled.how = "resolved" THEN Append(@, "testWebSocket") ELSE @,
              !.timeout = IF settled.how = "resolved" THEN "armed" ELSE @,
              !.conn.tls = httpsConnAfter(settled.by, @),
              !.conn.ws = IF settled.how = "resolved" THEN "connecting" ELSE @,
              !.opened.ws = IF settled.how = "resolved" THEN @ + 1 ELSE @,
              !.idle = 0, !.elapsed = 0]

\* testTLS settles (lines 2566-2581), then testWebSocket is called and arms
\* its timer (line 2899)
TlsSettles(settled) ==
  probe' = [probe EXCEPT
              !.tls = settled,
              !.result = AfterTLS(@, IF settled.how = "resolved" THEN "ok" ELSE settled.by),
              !.pc = "ws", !.calls = Append(@, "testWebSocket"),
              !.conn.tls = httpsConnAfter(settled.by, @),
              !.conn.ws = "connecting", !.opened.ws = @ + 1,
              !.timeout = "armed", !.idle = 0, !.elapsed = 0]
TlsResponse ==
  /\ probe.pc = "tls"
  /\ TlsSettles(tlsOnResponse)
  /\ UNCHANGED <<now, requestCache, rateLimitMap, req, zone, cfg, shadow, call, hist>>
TlsError ==
  /\ probe.pc = "tls"
  /\ \E message \in {"", "ECONNRESET"} : TlsSettles(tlsOnError(message))
  /\ UNCHANGED <<now, requestCache, rateLimitMap, req, zone, cfg, shadow, call, hist>>
TlsTimeout ==
  /\ probe.pc = "tls"
  /\ probe.idle >= TLS_TIMEOUT
  /\ TlsSettles(tlsOnTimeout)
  /\ UNCHANGED <<now, requestCache, rateLimitMap, req, zone, cfg, shadow, call, hist>>

\* handlers that settle the promise whenever they are called
WsSettlesUnguarded(settled) ==
  probe' = [probe EXCEPT
              !.ws = settled,
              !.isResolved = TRUE, !.timeout = Null, !.settles = @ + 1,
              !.late = IF probe.isResolved THEN @ \cup {settled.by} ELSE @,
              !.conn.ws = wsConnAfter(settled.by, @),
              !.conn.cdn = "connecting",
              !.opened.cdn = IF probe.isResolved THEN @ ELSE @ + 1,
              !.result = AfterWebSocket(@, FALSE,
                           IF settled.how = "resolved" THEN "open" ELSE settled.by,
                           settled.value.protocol),
              !.pc = "cdn",
              !.calls = IF probe.isResolved THEN @ ELSE Append(@, "testCDNTrace"),
              !.idle = 0, !.elapsed = 0]

\* A handler of testWebSocket calls safeResolve or safeReject (lines
\* 2854-2868): nothing happens when isResolved is set; otherwise the timer is
\* cleared and the promise settles, detectSingleIP goes on (lines 2595-2609)
\* and testCDNTrace sends its request.
WsSettles(settled) ==
  IF probe.isResolved
  THEN probe' = [probe EXCEPT !.late = @ \cup {settled.by},
                              !.conn.ws = wsConnAfter(settled.by, @)]
  ELSE probe' = [probe EXCEPT
                   !.ws = settled,
                   !.conn.ws = wsConnAfter(settled.by, @),
                   !.conn.cdn = "connecting", !.opened.cdn = @ + 1,
                   !.isResolved = TRUE, !.timeout = Null, !.settles = @ + 1,
                   !.result = AfterWebSocket(@, FALSE,
                                IF settled.how = "resolved" THEN "open" ELSE settled.by,
                                settled.value.protocol),
                   !.pc = "cdn", !.calls = Append(@, "testCDNTrace"),
                   !.idle = 0, !.elapsed = 0]
\* An 'open' or 'error' event of the socket comes while the probe is in
\* flight, or once more after it has settled (followed here up to the head of
\* the trace response).  The timer fires only while it is armed.
WsOpen ==
  /\ \/ probe.pc = "ws"
     \/ /\ probe.pc = "cdn" /\ probe.statusCode = 0
        /\ "open" \notin probe.late \cup {probe.ws.by}
  /\ \E protocol \in {"", "chat"} : WsSettles(wsOnOpen(protocol))
  /\ UNCHANGED <<now, requestCache, rateLimitMap, req, zone, cfg, shadow, call, hist>>
WsError ==
  /\ \/ probe.pc = "ws"
     \/ /\ probe.pc = "cdn" /\ probe.statusCode = 0
        /\ "error" \notin probe.late \cup {probe.ws.by}
  /\ \E message \in {"", "EPERM", "ECONNREFUSED", "ETIMEDOUT", "ENOTFOUND",
                     "socket hang up"} : WsSettles(wsOnError(message))
  /\ UNCHANGED <<now, requestCache, rateLimitMap, req, zone, cfg, shadow, call, hist>>
WsTimer ==
  /\ probe.pc \in {"ws", "cdn"}
  /\ probe.timeout = "armed"
  /\ probe.elapsed >= WEBSOCKET_TIMEOUT
  /\ WsSettles(wsOnTimer)
  /\ UNCHANGED <<now, requestCache, rateLimitMap, req, zone, cfg, shadow, call, hist>>

\* the response of the trace request: its head, its body, its end
CdnResponse ==
  /\ probe.pc = "cdn"
  /\ probe.statusCode = 0
  /\ \E statusCode \in HttpStatusCodes :
       probe' = [probe EXCEPT !.statusCode = statusCode, !.idle = 0,
                              !.conn.cdn = httpsConnAfter("response", @)]
  /\ UNCHANGED <<now, requestCache, rateLimitMap, req, zone, cfg, shadow, call, hist>>
CdnData ==
  /\ probe.pc = "cdn"
  /\ probe.statusCode # 0
  /\ probe.chunks < MaxChunks
  /\ \E chunk \in Chunks :
       probe' = [probe EXCEPT !.data = @ \o chunk, !.chunks = @ + 1, !.idle = 0]
  /\ UNCHANGED <<now, requestCache, rateLimitMap, req, zone, cfg, shadow, call, hist>>

\* testCDNTrace settles (lines 2620-2631) and detectSingleIP returns
CdnSettles(settled) ==
  probe' = [probe EXCEPT !.cdn = settled,
                         !.conn.cdn = httpsConnAfter(settled.by, @),
                         !.result = AfterCDNSettled(@, settled),
                         !.pc = "done", !.idle = 0]
CdnEnd ==
  /\ probe.pc = "cdn"
  /\ probe.statusCode # 0
  /\ CdnSettles(cdnOnEnd(probe.statusCode, probe.data))
  /\ UNCHANGED <<now, requestCache, rateLimitMap, req, zone, cfg, shadow, call, hist>>
CdnError ==
  /\ probe.pc = "cdn"
  /\ \E message \in {"", "ECONNRESET"} : CdnSettles(cdnOnError(message))
  /\ UNCHANGED <<now, requestCache, rateLimitMap, req, zone, cfg, shadow, call, hist>>
CdnTimeout ==
  /\ probe.pc = "cdn"
  /\ probe.idle >= CDN_TRACE_TIMEOUT
  /\ CdnSettles(cdnOnTimeout)
  /\ UNCHANGED <<now, requestCache, rateLimitMap, req, zone, cfg, shadow, call, hist>>

\* the batch loop has taken the result
DetectTaken ==
  /\ probe.pc = "done"
  /\ probe' = IdleProbe
  /\ UNCHANGED <<now, requestCache, rateLimitMap, req, zone, cfg, shadow, call, hist>>

NoShadow == [cache |-> <<>>, rates |-> <<>>]

InitWith(c) ==
  /\ now = 0
  /\ requestCache = <<>>
  /\ rateLimitMap = <<>>
  /\ req = [r \in Slots |-> IdleReq]
  /\ zone \in c.zones
  /\ cfg = c
  /\ call = IdleCall
  /\ hist = [c2 \in c.clients |-> NoHist]
  /\ probe = IdleProbe
  /\ shadow = NoShadow

Next ==
  \/ \E r \in Slots : Arrive(r)
  \/ \E r \in Slots : ResolveDone(r)
  \/ \E r \in Slots, k \in 1..MAX_CONCURRENT : DetectReturn(r, k)
  \/ PeriodicSweep
  \/ MemoryCheck
  \/ TickClock
  \/ ZoneChange

(***************************************************************************)
(* Spec: the requests of one client, one after the other, for an address   *)
(* and for a domain, with the cache, the limiter, the sweeps and a DNS     *)
(* that comes and goes.                                                    *)
(***************************************************************************)
BaseCfg ==
  [slots |-> {1},
   queries |-> {Query0(IPv6Literal), Query0(DomainName)},
   clients |-> {"c1"},
   outcomes |-> {AllOk, AllFail},
   zones |-> {ZoneOne, EmptyZone},
   names |-> {},
   maxNow |-> 0,
   tick |-> Tick,
   reuse |-> TRUE,
   shadow |-> FALSE,
   disableWs |-> FALSE,
   disableCdn |-> FALSE]

SpecCfg == [BaseCfg EXCEPT !.maxNow = CacheTicks * Tick]

Init == InitWith(SpecCfg)

Spec == Init /\ [][Next]_vars

(***************************************************************************)
(* SpecRate: the requests of two clients for one address over two rate     *)
(* windows, with the sweeps.                                               *)
(***************************************************************************)
RateCfg ==
  [BaseCfg EXCEPT !.queries = {Query0(IPv6Literal)},
                  !.clients = {"c1", "c2"},
                  !.outcomes = {AllOk},
                  !.zones = {EmptyZone},
                  !.maxNow = MaxTicks * Tick]

InitRate == InitWith(RateCfg)

NextRate ==
  \/ \E r \in Slots : Arrive(r)
  \/ \E r \in Slots, k \in 1..MAX_CONCURRENT : DetectReturn(r, k)
  \/ PeriodicSweep
  \/ MemoryCheck
  \/ TickClock

SpecRate == InitRate /\ [][NextRate]_vars

(***************************************************************************)
(* SpecBatch: the batch loop of a request over one, several and too many   *)
(* addresses, with every mix of outcomes among the addresses.              *)
(***************************************************************************)
\* TLS answers, the WebSocket upgrade is refused, the trace path gives 404
TlsOnly == [geo |-> GeoHit, tls |-> "ok", ws |-> "error", wsProtocol |-> "",
            cdn |-> CdnFail("endpoint unavailable (HTTP 404)"),
            excAt |-> "", excMessage |-> ""]
\* TLS fails, the WebSocket opens with a sub-protocol, the trace says warp=on
WarpOn == [geo |-> NoGeo, tls |-> "error", ws |-> "open", wsProtocol |-> "chat",
           cdn |-> CdnOk("on"), excAt |-> "", excMessage |-> ""]
\* TLS answers, then an exception escapes from the WebSocket step: the trace
\* probe is never called
Crash == [geo |-> GeoHit, tls |-> "ok", ws |-> "error", wsProtocol |-> "",
          cdn |-> CdnFail("not called"), excAt |-> "ws",
          excMessage |-> "Cannot read properties of undefined"]
ZoneFull == [EmptyZone EXCEPT !.a = [n \in {DomainName} |-> AddrList(MAX_CONCURRENT)]]

BatchCfg ==
  [BaseCfg EXCEPT !.queries = {Query0(IPv4Literal), Query0(DomainName)},
                  !.outcomes = {AllOk, AllFail, TlsOnly, WarpOn, Crash},
                  !.zones = {ZoneOne, ZoneFull, ZoneUp, ZoneBig}]

InitBatch == InitWith(BatchCfg)

NextBatch ==
  \/ \E r \in Slots : Arrive(r)
  \/ \E r \in Slots : ResolveDone(r)
  \/ \E r \in Slots, k \in 1..MAX_CONCURRENT : DetectReturn(r, k)

SpecBatch == InitBatch /\ [][NextBatch]_vars

(***************************************************************************)
(* SpecGate: the checks of the handler before the detection, for requests  *)
(* of two clients: an address with the default path and with another path, *)
(* a domain with port 0 in the ip:port form, a domain with a port above    *)
(* 65535, and a target that is neither an address nor a domain.            *)
(***************************************************************************)
GateCfg ==
  [BaseCfg EXCEPT !.queries = {Query0(IPv4Literal),
                                [Query0(IPv4Literal) EXCEPT !.wsPath = "/ws"],
                                Query0(DomainName \o <<":", "0">>),
                                [Query0(DomainName) EXCEPT
                                   !.port = <<"7", "0", "0", "0", "0">>],
                                Query0(<<"-", "a">>)},
                  !.clients = {"c1", "c2"},
                  !.zones = {ZoneOne}]

SpecGate == InitWith(GateCfg) /\ [][NextBatch]_vars

(***************************************************************************)
(* SpecCache: the life of the cache entries of two targets, with a clock   *)
(* of half the cache duration, so that an entry is met fresh at an age     *)
(* above 0, and a domain of one batch or two.                              *)
(***************************************************************************)
CacheCfg ==
  [BaseCfg EXCEPT !.queries = {Query0(IPv6Literal), Query0(DomainName)},
                  !.outcomes = {AllOk},
                  !.zones = {ZoneOne, ZoneUp},
                  !.tick = CACHE_DURATION \div 2,
                  !.maxNow = CacheTicks * (CACHE_DURATION \div 2)]

SpecCache == InitWith(CacheCfg) /\ [][Next]_vars

(***************************************************************************)
(* SpecBurst: the requests of one client that overlap, two at a time, in   *)
(* one rate window: a request for a domain is suspended in the resolver    *)
(* before it reaches checkRateLimit, a request for an address is not.      *)
(***************************************************************************)
BurstCfg ==
  [BaseCfg EXCEPT !.slots = Slots,
                  !.queries = {Query0(IPv6Literal), Query0(DomainName)},
                  !.outcomes = {AllOk},
                  !.zones = {ZoneOne}]

SpecBurst == InitWith(BurstCfg) /\ [][NextBatch]_vars

(***************************************************************************)
(* SpecOverlap: two requests for one domain, the second of which may come  *)
(* while the first is suspended in the resolver or in its detection; the   *)
(* domain has one address or more than a batch holds, the clock may make   *)
(* one step of half the cache duration.                                    *)
(***************************************************************************)
OverlapCfg ==
  [BaseCfg EXCEPT !.slots = Slots,
                  !.queries = {Query0(DomainName)},
                  !.zones = {ZoneOne, ZoneUp},
                  !.reuse = FALSE,
                  !.tick = CACHE_DURATION \div 2,
                  !.maxNow = CACHE_DURATION \div 2]

NextOverlap ==
  \/ \E r \in Slots : Arrive(r)
  \/ \E r \in Slots : ResolveDone(r)
  \/ \E r \in Slots, k \in 1..MAX_CONCURRENT : DetectReturn(r, k)
  \/ TickClock
  \/ ZoneChange

SpecOverlap == InitWith(OverlapCfg) /\ [][NextOverlap]_vars

(***************************************************************************)
(* SpecTransparent: the requests of one client for an address and for a    *)
(* domain until a rate record of the first moment is old enough to be     *)
(* swept, with the periodic sweep at any moment and, next to the two maps, *)
(* the maps the same requests leave when no sweep runs.                    *)
(***************************************************************************)
TransparentCfg ==
  [BaseCfg EXCEPT !.outcomes = {AllOk},
                  !.zones = {ZoneOne},
                  !.shadow = TRUE,
                  !.maxNow = RATE_LIMIT_WINDOW * 2 + Tick]

NextTransparent ==
  \/ \E r \in Slots : Arrive(r)
  \/ \E r \in Slots : ResolveDone(r)
  \/ \E r \in Slots, k \in 1..MAX_CONCURRENT : DetectReturn(r, k)
  \/ PeriodicSweep
  \/ TickClock

SpecTransparent == InitWith(TransparentCfg) /\ [][NextTransparent]_vars

(***************************************************************************)
(* SpecSweep: the two sweeps applied to a cache of up to                   *)
(* CACHE_PRESSURE_SIZE + 2 entries that are expired, of age CACHE_DURATION *)
(* exactly, or younger, in any order of the Map (an entry that is replaced *)
(* keeps its place and gets a new timestamp).                              *)
(***************************************************************************)
InitSweep ==
  /\ now = 2 * CACHE_DURATION
  /\ requestCache \in
       {[k \in DOMAIN stamps |->
           [key |-> <<"ip", Addr(k), DEFAULT_PORT, DEFAULT_HOST>>, data |-> NoBody,
            timestamp |-> stamps[k], wsPath |-> DEFAULT_WS_PATH]] :
          stamps \in UNION {[1..n -> {0, CACHE_DURATION,
                                      CACHE_DURATION + CACHE_DURATION \div 2,
                                      2 * CACHE_DURATION}] :
                              n \in 0..(CACHE_PRESSURE_SIZE + 2)}}
  /\ rateLimitMap = <<>>
  /\ req = [r \in Slots |-> IdleReq]
  /\ zone = EmptyZone
  /\ cfg = BaseCfg
  /\ call = IdleCall
  /\ hist = [c \in BaseCfg.clients |-> NoHist]
  /\ probe = IdleProbe
  /\ shadow = NoShadow

SpecSweep == InitSweep /\ [][PeriodicSweep \/ MemoryCheck]_vars

(***************************************************************************)
(* SpecResolve: direct calls of resolveDomain(name) under the zones made   *)
(* of the records below.                                                   *)
(***************************************************************************)
AliasName == <<"b", ".", "g">>
\* four numbers with dots, one of them above 255: no address, a domain
NotAnAddress == <<"2", "5", "6", ".", "1", ".", "1", ".", "1">>

ResolveZones ==
  { [a |-> [n \in {DomainName, AliasName} |-> IF n = DomainName THEN aD ELSE aE],
     cname |-> [n \in {DomainName, AliasName} |-> IF n = DomainName THEN cD ELSE cE],
     any |-> [n \in {DomainName} |-> anyD],
     lookupAll |-> [n \in {DomainName} |-> allD],
     lookup |-> [n \in {DomainName} |-> oneD]] :
      aD \in {<<>>, <<Addr(1)>>, <<Addr(1), Addr(2)>>},
      aE \in {<<>>, <<Addr(2)>>},
      cD \in {<<>>, <<AliasName>>, <<IPv4Literal>>, <<DomainName>>},
      cE \in {<<>>, <<DomainName>>},
      anyD \in {<<>>, <<Addr(1)>>},
      allD \in {<<>>, <<Addr(3)>>},
      oneD \in {<<>>, <<Addr(3)>>} }

\* a chain of CNAME records z00.g -> z01.g -> ... of len links; the last name
\* has an address record, and so has the first when aTop
DigitChars == <<"0", "1", "2", "3", "4", "5", "6", "7", "8", "9">>
ChainName(k) == <<"z", DigitChars[(k \div 10) + 1], DigitChars[(k % 10) + 1], ".", "g">>
ChainZone(len, aTop) ==
  LET names == {ChainName(k) : k \in 0..len}
      idx(n) == CHOOSE k \in 0..len : ChainName(k) = n
  IN [EmptyZone EXCEPT
        !.a = [n \in names |-> IF idx(n) = len THEN <<Addr(1)>>
                               ELSE IF idx(n) = 0 /\ aTop THEN <<Addr(2)>> ELSE <<>>],
        !.cname = [n \in names \ {ChainName(len)} |-> <<ChainName(idx(n) + 1)>>]]
ChainZones ==
  {ChainZone(len, aTop) : len \in {DNS_MAX_RECURSION_DEPTH, DNS_MAX_RECURSION_DEPTH + 1,
                                    DNS_MAX_RECURSION_DEPTH + 2},
                          aTop \in BOOLEAN}

\* a name without any record, and a name that holds the text of a DNS error
\* code and has no record either
NoSuchName == <<"x", ".", "g">>
ErrorCodeName == ENODATA \o <<".", "g">>

\* resolveCname answers with two targets, one of which has no record
TwoTargetZones ==
  { [EmptyZone EXCEPT !.a = [n \in {DomainName, AliasName} |->
                               IF n = DomainName THEN aD ELSE <<Addr(2)>>],
                      !.cname = [n \in {DomainName} |-> cD]] :
      aD \in {<<>>, <<Addr(1)>>},
      cD \in {<<NoSuchName, AliasName>>, <<AliasName, NoSuchName>>} }

\* the name has two CNAME targets, and both are aliases of one shared name,
\* which may have an address and may be an alias of the first name again
LeftName == <<"l", ".", "g">>
RightName == <<"r", ".", "g">>
SharedName == <<"h", ".", "g">>
DiamondZones ==
  { [EmptyZone EXCEPT
       !.a = [n \in {SharedName, RightName} |-> IF n = SharedName THEN aH ELSE aR],
       !.cname = [n \in {DomainName, LeftName, RightName, SharedName} |->
                    CASE n = DomainName -> <<LeftName, RightName>>
                      [] n = LeftName -> <<SharedName>>
                      [] n = RightName -> <<SharedName>>
                      [] OTHER -> cH]] :
      aH \in {<<>>, <<Addr(2)>>},
      aR \in {<<>>, <<Addr(3)>>},
      cH \in {<<>>, <<DomainName>>} }

ResolveCfg ==
  [BaseCfg EXCEPT !.zones = ResolveZones \cup ChainZones \cup TwoTargetZones
                            \cup DiamondZones,
                  !.names = {DomainName, AliasName, IPv4Literal, IPv6Literal, NotAnAddress,
                             ChainName(0), NoSuchName, ErrorCodeName, RightName}]

\* resolveDomain(name) is called and settles
ResolveCall ==
  /\ call.pc = "idle"
  /\ \E d \in cfg.names :
       LET res == resolveDomain(zone, d, NewResolveState, 0)
       IN call' = [pc |-> "done", domain |-> d, ok |-> res.ok, ips |-> res.ips,
                   err |-> res.err, queries |-> res.st.queries,
                   calls |-> res.st.calls, visited |-> res.st.visited,
                   descents |-> res.st.descents, cycles |-> res.st.cycles]
  /\ UNCHANGED <<now, requestCache, rateLimitMap, req, zone, cfg, shadow, hist, probe>>

\* the caller has taken the result
ResolveTaken ==
  /\ call.pc = "done"
  /\ call' = IdleCall
  /\ UNCHANGED <<now, requestCache, rateLimitMap, req, zone, cfg, shadow, hist, probe>>

InitResolve == InitWith(ResolveCfg)

NextResolve == ResolveCall \/ ResolveTaken

SpecResolve == InitResolve /\ [][NextResolve]_vars

(***************************************************************************)
(* SpecProbe: one detectSingleIP call against a peer that may answer, fail, *)
(* stay silent or keep sending.  SpecProbeLive adds what the runtime       *)
(* guarantees: time passes and a timer that is due fires.                  *)
(***************************************************************************)
InitProbe == InitWith(BaseCfg)

NextProbe ==
  \/ DetectStart
  \/ SocketActivity
  \/ TimePasses
  \/ TlsResponse
  \/ TlsError
  \/ TlsTimeout
  \/ WsOpen
  \/ WsError
  \/ WsTimer
  \/ CdnResponse
  \/ CdnData
  \/ CdnEnd
  \/ CdnError
  \/ CdnTimeout
  \/ DetectTaken

SpecProbe == InitProbe /\ [][NextProbe]_vars

SpecProbeLive ==
  /\ SpecProbe
  /\ WF_vars(TimePasses)
  /\ WF_vars(TlsTimeout)
  /\ WF_vars(WsTimer)
  /\ WF_vars(CdnTimeout)

(***************************************************************************)
(* Properties.                                                             *)
(***************************************************************************)
Detected(rq) == rq.pc = "done" /\ \E k \in 1..Len(rq.steps) : rq.steps[k] = "cachewrite"
Went(rq, step) == \E k \in 1..Len(rq.steps) : rq.steps[k] = step
ServedFromCache(rq) == rq.pc = "done" /\ rq.status = 200 /\ ~Went(rq, "detect")

\* C1: when the batch loop of a request has ended, results holds exactly one
\* entry per target address, in the order of targetIPs, whatever the probes
\* of each address did; the response lists them in the same order.
C1_OneResultPerIP ==
  \A r \in Slots :
    Detected(req[r]) =>
      /\ Len(req[r].results) = Len(req[r].targetIPs)
      /\ Len(req[r].body.results) = Len(req[r].targetIPs)
      /\ \A j \in 1..Len(req[r].targetIPs) :
           /\ req[r].results[j].ip = req[r].targetIPs[j]
           /\ req[r].body.results[j].ip = req[r].targetIPs[j]

\* a loop of two batches has ended with the first address passing TLS and the
\* second failing it
C1_Witness ==
  \E r \in Slots :
    /\ Detected(req[r])
    /\ Len(req[r].targetIPs) > MAX_CONCURRENT
    /\ req[r].results[1].checks.tls_detect
    /\ ~req[r].results[2].checks.tls_detect

\* C2: at most MAX_CONCURRENT detectSingleIP calls of a request are in flight,
\* and while the batch at offset i is in flight exactly the i calls of the
\* earlier batches have been started, have returned and are in results: no
\* call of a later batch has started.
C2_BoundedBatches ==
  \A r \in Slots :
    /\ Cardinality(req[r].pending) <= MAX_CONCURRENT
    /\ req[r].pc = "detecting" =>
         /\ Len(req[r].results) = req[r].i
         /\ req[r].started = req[r].i + Len(req[r].batchResults)
         /\ req[r].started - Len(req[r].results) <= MAX_CONCURRENT
         /\ req[r].pending \subseteq 1..Len(req[r].batchResults)

\* the second batch of a request is in flight after a full first batch
C2_Witness ==
  \E r \in Slots :
    /\ req[r].pc = "detecting"
    /\ req[r].i = MAX_CONCURRENT
    /\ req[r].pending # {}
    /\ Len(req[r].results) = MAX_CONCURRENT

C4_NoSecondActivity ==
  \A r \in Slots :
    req[r].expect.kind # "none" => (req[r].dnsQueries = 0 /\ req[r].started = 0)

\* C5: a response comes from the cache only when the entry found at the cache
\* check is younger than CACHE_DURATION; a request that reaches the cache
\* check with an older entry, or with none, runs a detection, and when its
\* detection ends the cache holds its response under its key, stamped now.
C5_Served ==
  \A r \in Slots :
    /\ ServedFromCache(req[r]) =>
         (req[r].cacheAge # NoAge /\ req[r].cacheAge < CACHE_DURATION)
    /\ (Went(req[r], "cache") /\ (req[r].cacheAge = NoAge \/ req[r].cacheAge >= CACHE_DURATION))
         => (Went(req[r], "detect") /\ req[r].started > 0)
C5_Replaced ==
  \A r \in Slots :
    (req[r].pc = "detecting" /\ req'[r].pc = "done") =>
      /\ MapHas(requestCache', cacheKey(req'[r]))
      /\ MapGet(requestCache', cacheKey(req'[r])).data = req'[r].body
      /\ MapGet(requestCache', cacheKey(req'[r])).timestamp = now
C5_FreshOnly == [](C5_Served) /\ [][C5_Replaced]_vars

\* a request met an entry of age exactly CACHE_DURATION, left in the map by
\* the sweeps, and has replaced it
C5_Witness ==
  \E r \in Slots :
    /\ Detected(req[r])
    /\ req[r].cacheAge = CACHE_DURATION
    /\ MapGet(requestCache, cacheKey(req[r])).data = req[r].body

\* C6: of the requests of one identity that reach checkRateLimit from a start
\* without a record and within the window this opens, the first
\* MAX_REQUESTS_PER_IP are accepted and every later one is rejected; a
\* rejected request is answered 429.
C6_QuotaPerWindow ==
  /\ \A c \in DOMAIN hist :
       \A k \in 1..Len(hist[c].log) : hist[c].log[k] = (k <= MAX_REQUESTS_PER_IP)
  /\ \A r \in Slots :
       (req[r].rate.checked /\ ~req[r].rate.ok) => req[r].status = 429

\* an identity has had its request number MAX_REQUESTS_PER_IP + 1 rejected
C6_Witness ==
  \E r \in Slots :
    /\ req[r].status = 429
    /\ Len(hist[req[r].client].log) = MAX_REQUESTS_PER_IP + 1
    /\ ~hist[req[r].client].log[MAX_REQUESTS_PER_IP + 1]

\* C7: a request that finds its identity's record with the quota used up and
\* the window over (now - firstRequest > RATE_LIMIT_WINDOW) is accepted, and
\* leaves a record that starts now with count 1.
C7_NewWindow ==
  \A r \in Slots :
    ( /\ req[r].rate.checked
      /\ req[r].rate.before.present
      /\ req[r].rate.before.count >= MAX_REQUESTS_PER_IP
      /\ req[r].rate.at - req[r].rate.before.firstRequest > RATE_LIMIT_WINDOW )
    => /\ req[r].rate.ok
       /\ req[r].status # 429
       /\ req[r].rate.after =
            [present |-> TRUE, firstRequest |-> req[r].rate.at, count |-> 1]

\* such a request has been accepted
C7_Witness ==
  \E r \in Slots :
    /\ req[r].rate.checked
    /\ req[r].rate.before.present
    /\ req[r].rate.before.count >= MAX_REQUESTS_PER_IP
    /\ req[r].rate.at - req[r].rate.before.firstRequest > RATE_LIMIT_WINDOW
    /\ req[r].rate.ok

\* C8: once the counter of an identity has reached the limit in the window
\* that started at time f, every request of that identity that reaches
\* checkRateLimit no later than f + RATE_LIMIT_WINDOW is rejected, whatever
\* ran in between.
C8_RejectedUntilWindowEnds ==
  \A r \in Slots :
    ( /\ req[r].rate.checked
      /\ req[r].rate.exhausted >= 0
      /\ req[r].rate.at - req[r].rate.exhausted <= RATE_LIMIT_WINDOW )
    => ~req[r].rate.ok

C10_LiteralShortcut ==
  (call.pc = "done" /\ isIPAddress(call.domain)) =>
     /\ call.ok
     /\ call.ips = <<call.domain>>
     /\ call.queries = <<>>

\* the call was made with an IPv4 literal, which isDomain accepts as well
C10_Witness ==
  /\ call.pc = "done"
  /\ isIPAddress(call.domain)
  /\ isDomain(call.domain)
  /\ call.ips = <<call.domain>>

\* the targets resolveCname gives for a name; an address has none, it is
\* returned before any query
CnameTargets(z, name) == IF isIPAddress(name) THEN <<>> ELSE ZGet(z.cname, name)

\* following CNAME records from name leads to a name met before
RECURSIVE CnameCycle(_, _, _)
CnameCycle(z, name, seen) ==
  \/ name \in seen
  \/ \E k \in 1..Len(CnameTargets(z, name)) :
       CnameCycle(z, CnameTargets(z, name)[k], seen \cup {name})

\* the number of links of the chain of first targets that starts at name
RECURSIVE ChainLinks(_, _, _)
ChainLinks(z, name, seen) ==
  IF name \in seen \/ Len(CnameTargets(z, name)) = 0 THEN 0
  ELSE 1 + ChainLinks(z, CnameTargets(z, name)[1], seen \cup {name})

\* C11: a top-level call for a domain whose CNAME chain contains a repeated
\* name fails, and fails with the cycle error.
C11_CycleError ==
  (call.pc = "done" /\ CnameCycle(zone, call.domain, {}))
    => (~call.ok /\ call.err = "cycle")

\* C12: a top-level call for a domain whose CNAME chain of distinct names has
\* more than DNS_MAX_RECURSION_DEPTH links fails with the depth error.
C12_DepthError ==
  ( /\ call.pc = "done"
    /\ ~CnameCycle(zone, call.domain, {})
    /\ ChainLinks(zone, call.domain, {}) > DNS_MAX_RECURSION_DEPTH )
    => (~call.ok /\ call.err = "depth")

\* C13: a call for a domain that has no address record, no CNAME and no
\* lookup answer fails with the "no records found" error.
C13_NoRecordsError ==
  ( /\ call.pc = "done"
    /\ ~isIPAddress(call.domain)
    /\ ZGet(zone.a, call.domain) = <<>>
    /\ ZGet(zone.cname, call.domain) = <<>>
    /\ ZGet(zone.any, call.domain) = <<>>
    /\ ZGet(zone.lookupAll, call.domain) = <<>>
    /\ ZGet(zone.lookup, call.domain) = <<>> )
    => (~call.ok /\ call.err = "norecords")

\* the addresses of a list, as a set
SetOf(seq) == {seq[k] : k \in 1..Len(seq)}

\* what the resolution of one CNAME target of domain returns
TargetIPs(z, domain, target) ==
  LET r == resolveDomain(z, target, [NewResolveState EXCEPT !.visited = {domain}], 1)
  IN IF r.ok THEN SetOf(r.ips) ELSE {}

\* C14: the list a call returns is, as a set, the union of the answers of the
\* direct A lookup, of the resolution of every CNAME target, of the generic A
\* lookup and of the system lookup, and holds no address twice.
C14_UnionOfMethods ==
  (call.pc = "done" /\ call.ok /\ ~isIPAddress(call.domain)) =>
    /\ SetOf(call.ips) =
         SetOf(ZGet(zone.a, call.domain))
         \cup UNION {TargetIPs(zone, call.domain, t) :
                       t \in SetOf(ZGet(zone.cname, call.domain))}
         \cup SetOf(ZGet(zone.any, call.domain))
         \cup (IF Len(ZGet(zone.lookupAll, call.domain)) > 0
               THEN SetOf(ZGet(zone.lookupAll, call.domain))
               ELSE SetOf(ZGet(zone.lookup, call.domain)))
    /\ Cardinality(SetOf(call.ips)) = Len(call.ips)

\* C15: a request whose probes have started has at most MAX_IP_COUNT target
\* addresses; a request whose resolution gave more is answered 400 without a
\* single probe started.
C15_BoundedFanOut ==
  \A r \in Slots :
    /\ (req[r].started > 0 \/ req[r].pc = "detecting")
         => Len(req[r].targetIPs) <= MAX_IP_COUNT
    /\ (req[r].pc = "done" /\ Len(req[r].targetIPs) > MAX_IP_COUNT)
         => /\ req[r].started = 0
            /\ req[r].results = <<>>
            /\ req[r].status = 400

\* a resolution has given more than MAX_IP_COUNT addresses and the request
\* has been answered
C15_Witness ==
  \E r \in Slots :
    /\ req[r].pc = "done"
    /\ req[r].dnsQueries > 0
    /\ Len(req[r].targetIPs) = MAX_IP_COUNT + 1
    /\ req[r].status = 400

\* C17: a request whose probes were started ends with a 200 response that
\* has one entry per target address, and in each entry a check is true
\* exactly when the probe of that address succeeded: no failure of a probe
\* makes the response an error.
C17_FailuresStayLocal ==
  \A r \in Slots :
    (req[r].pc = "done" /\ req[r].started > 0) =>
      /\ req[r].status = 200
      /\ req[r].body.kind \in {"single", "multi"}
      /\ req[r].body.error = ""
      /\ Len(req[r].body.results) = Len(req[r].targetIPs)
      /\ \A j \in 1..Len(req[r].targetIPs) :
           /\ req[r].body.results[j].checks.tls_detect = (req[r].outs[j].tls = "ok")
           /\ req[r].body.results[j].checks.ws_real_connect = (req[r].outs[j].ws = "open")
           /\ req[r].body.results[j].checks.cdn_trace = req[r].outs[j].cdn.success

\* a response of several entries: every probe of the first address failed,
\* and a probe of the second succeeded
C17_Witness ==
  \E r \in Slots :
    /\ req[r].pc = "done"
    /\ req[r].status = 200
    /\ Len(req[r].body.results) > MAX_CONCURRENT
    /\ req[r].outs[1] = AllFail
    /\ req[r].outs[2].tls = "ok"

C19_WebsocketErrorReported ==
  \A r \in Slots :
    (req[r].pc = "done" /\ req[r].started > 0) =>
      \A j \in 1..Len(req[r].body.results) :
        (req[r].outs[j].tls = "ok" /\ req[r].outs[j].ws # "open") =>
          /\ req[r].body.results[j].checks.tls_detect
          /\ ~req[r].body.results[j].checks.ws_real_connect
          /\ req[r].body.results[j].websocket.error # Null

\* C16: every probe that was started settles, and the detectSingleIP call
\* it belongs to returns.
C16_ProbesSettle ==
  (probe.pc \in {"tls", "ws", "cdn"}) ~> (probe.pc = "done")

\* C20: testCDNTrace never rejects.  A response that is not 200 or has an
\* empty body, a request error and a timeout all resolve to success false,
\* warp off and a reason; for 404 the reason says the endpoint is
\* unavailable; and detectSingleIP then has cdn_trace false.
CdnFailed ==
  \/ probe.cdn.by \in {"error", "timeout"}
  \/ probe.cdn.by = "end" /\ (probe.statusCode # 200 \/ TrimIsEmpty(probe.data))
C20_TraceNeverRejects ==
  /\ probe.cdn.how # "rejected"
  /\ probe.pc = "done" =>
       /\ probe.cdn.how = "resolved"
       /\ probe.result.checks.cdn_trace = probe.cdn.value.success
       /\ CdnFailed =>
            /\ probe.cdn.value.success = FALSE
            /\ probe.cdn.value.warp = "off"
            /\ probe.cdn.value.reason # ""
            /\ probe.result.checks.cdn_trace = FALSE
            /\ probe.result.cdn.warp = "off"
       /\ (probe.cdn.by = "end" /\ probe.statusCode = 404) =>
            probe.cdn.value.reason = "endpoint unavailable (HTTP 404)"

\* the trace endpoint has answered 404 with a body
C20_Witness ==
  /\ probe.pc = "done"
  /\ probe.cdn.by = "end"
  /\ probe.statusCode = 404
  /\ probe.data # <<>>
  /\ ~probe.result.checks.cdn_trace

\* C21: when an exception escaped from the detection of an address, the
\* request still ends with one entry per target address, and the entry
\* delivered for that address carries the message of the exception in its
\* error field.
C21_ErrorDelivered ==
  \A r \in Slots :
    (req[r].pc = "done" /\ req[r].started > 0) =>
      /\ Len(req[r].body.results) = Len(req[r].targetIPs)
      /\ \A j \in 1..Len(req[r].body.results) :
           req[r].outs[j].excAt # "" =>
             /\ "error" \in DOMAIN req[r].body.results[j]
             /\ req[r].body.results[j].error = req[r].outs[j].excMessage

\* C22: the target of a request is an IP literal or a domain and never both,
\* and a target that is neither is answered 400: a target that isIPAddress
\* accepts is not handed to the resolver and is not reported with isDomain
\* true.
C22_OneClassification ==
  \A r \in Slots :
    req[r].pc # "idle" =>
      /\ ~(req[r].isIP /\ req[r].isDomainName)
      /\ (~req[r].isIP /\ ~req[r].isDomainName) => req[r].status = 400
      /\ req[r].isIP =>
           /\ ~Went(req[r], "resolve")
           /\ req[r].body.kind \in {"single", "multi"} => ~req[r].body.isDomain

\* C23: a request answered 400 or 429 has started no probe and has written
\* nothing to the cache; the record of its identity in the rate map is as it
\* found it; and when it was rejected for its port it has issued no DNS query.
C23_RejectedWithoutTrace ==
  \A r \in Slots :
    (req[r].pc = "done" /\ req[r].status \in {400, 429}) =>
      /\ req[r].started = 0
      /\ ~Went(req[r], "cachewrite")
      /\ req[r].rate.checked => req[r].rate.after = req[r].rate.before
      /\ req[r].body.error = "invalid port" => req[r].dnsQueries = 0

\* C24: a request is answered from the cache only with an entry that was
\* computed for its own wsPath.
C24_KeyHoldsWsPath ==
  [][\A r \in Slots :
       (req'[r] # req[r] /\ ServedFromCache(req'[r])) =>
         MapGet(requestCache, cacheKey(req'[r])).wsPath = req'[r].wsPath]_vars

\* C25: in one detection testTLS, testWebSocket and testCDNTrace are called
\* once each, in this order, whatever the GeoIP lookup and the probes before
\* gave: while a probe is in flight the calls so far are the probes up to it,
\* and when the detection returns all three have been called once.
C25_EachProbeOnce ==
  /\ probe.pc = "idle" => probe.calls = <<>>
  /\ probe.pc = "tls" => probe.calls = <<"testTLS">>
  /\ probe.pc = "ws" => probe.calls = <<"testTLS", "testWebSocket">>
  /\ probe.pc \in {"cdn", "done"} =>
       probe.calls = <<"testTLS", "testWebSocket", "testCDNTrace">>

\* a detection has returned after a GeoIP miss, a failed TLS probe and a
\* failed WebSocket probe, and its trace probe got an answer
C25_Witness ==
  /\ probe.pc = "done"
  /\ ~probe.result.geoip.present
  /\ probe.tls.how = "rejected"
  /\ probe.ws.how = "rejected"
  /\ probe.cdn.by = "end"
  /\ probe.result.checks.cdn_trace

\* C26: the result of a detection holds a latency for each of the three
\* probes: for the TLS probe, for the WebSocket probe and, under some name of
\* its own, for the trace probe.
C26_LatencyOfEveryProbe ==
  probe.pc = "done" =>
    /\ "tls_handshake_ms" \in probe.result.latency
    /\ "ws_connect_ms" \in probe.result.latency
    /\ probe.result.latency \ {"tls_handshake_ms", "ws_connect_ms"} # {}

\* C27: an entry of the cache is created or replaced only in the step in
\* which a request that found no fresh entry at its cache check ends its
\* detection with a result for every target address, and only under the key
\* of that request; a step in which a request is answered 400 or 429 or
\* from the cache leaves the cache as it is, timestamps included.
C27_WrittenOnlyAfterDetection ==
  [][/\ \A k \in 1..Len(requestCache') :
          (\A j \in 1..Len(requestCache) : requestCache[j] # requestCache'[k]) =>
            \E r \in Slots :
              /\ req[r].pc = "detecting"
              /\ Detected(req'[r])
              /\ req'[r].cacheAge = NoAge \/ req'[r].cacheAge >= CACHE_DURATION
              /\ Len(req'[r].results) = Len(req'[r].targetIPs)
              /\ requestCache'[k].key = cacheKey(req'[r])
     /\ \A r \in Slots :
          ( /\ req[r].pc # "done"
            /\ req'[r].pc = "done"
            /\ req'[r].status \in {400, 429} \/ ServedFromCache(req'[r]) )
          => requestCache' = requestCache]_vars

\* a request has been answered from the cache with an entry written earlier
\* than it arrived
C27_Witness ==
  \E r \in Slots :
    /\ ServedFromCache(req[r])
    /\ req[r].cacheAge > 0
    /\ MapGet(requestCache, cacheKey(req[r])).timestamp < req[r].arrivedAt

\* C28: a step removes the rate record of an identity only when at least two
\* window widths have passed since that identity's latest call of
\* checkRateLimit.
C28_RemovedAfterTwoWindows ==
  [][\A k \in 1..Len(rateLimitMap) :
       ~MapHas(rateLimitMap', rateLimitMap[k].key) =>
         now - hist[rateLimitMap[k].key[2]].last >= RATE_LIMIT_WINDOW * 2]_vars

\* C30: testWebSocket settles exactly once, whatever the order of its open,
\* error and timer events.  While it is in flight it has not settled and its
\* timer is armed; once an event has settled it, it has settled once, as
\* resolved when the event was open and as rejected when it was an error or
\* the timer, and the timer is cleared; an event that comes later changes
\* neither the settled value nor the result of the detection.
C30_Settled ==
  /\ probe.pc = "ws" =>
       (~probe.isResolved /\ probe.settles = 0 /\ probe.timeout = "armed")
  /\ probe.pc \in {"cdn", "done"} =>
       /\ probe.isResolved
       /\ probe.settles = 1
       /\ probe.timeout = Null
       /\ probe.ws.by \in {"open", "error", "timer"}
       /\ (probe.ws.how = "resolved") = (probe.ws.by = "open")
       /\ (probe.ws.how = "rejected") = (probe.ws.by \in {"error", "timer"})
       /\ probe.result.checks.ws_real_connect = (probe.ws.by = "open")
C30_LaterEventIgnored ==
  (probe.isResolved /\ probe'.isResolved) =>
    /\ probe'.ws = probe.ws
    /\ probe'.settles = probe.settles
    /\ probe'.result.checks.ws_real_connect = probe.result.checks.ws_real_connect
    /\ probe'.result.websocket = probe.result.websocket
C30_SettlesOnce == [](C30_Settled) /\ [][C30_LaterEventIgnored]_vars

\* the socket opened, and reported an error after the probe had settled
C30_Witness ==
  /\ probe.pc = "done"
  /\ probe.ws.by = "open"
  /\ "error" \in probe.late
  /\ probe.result.checks.ws_real_connect

\* C29: a sweep leaves exactly the entries that are not expired, and a
\* cleanup under memory pressure (forced, or with the heap above the cleanup
\* threshold) leaves of those all but the oldest half: it drops
\* floor(n / 2) of the n unexpired entries, none of them younger than an
\* entry it keeps.
C29_PressureSweep ==
  LET rest == SelectSeq(requestCache, LAMBDA e : now - e.timestamp <= CACHE_DURATION)
      swept == UnexpiredCache(requestCache, now)
      forced == performMemoryCleanup(requestCache, rateLimitMap, now, TRUE, FALSE).cache
      high == performMemoryCleanup(requestCache, rateLimitMap, now, FALSE, TRUE).cache
      HalfDropped(out) ==
        /\ Len(out) = Len(rest) - (Len(rest) \div 2)
        /\ SetOf(out) \subseteq SetOf(rest)
        /\ \A e \in SetOf(out), d \in SetOf(rest) \ SetOf(out) : d.timestamp <= e.timestamp
  IN /\ swept = rest
     /\ HalfDropped(forced)
     /\ HalfDropped(high)

\* C31, as stated: a probe that has settled has no connection that is still
\* connecting or open.
C31_NoOpenConnection ==
  /\ probe.tls.how # "pending" => probe.conn.tls \notin {"connecting", "open"}
  /\ probe.ws.how # "pending" => probe.conn.ws \notin {"connecting", "open"}
  /\ probe.cdn.how # "pending" => probe.conn.cdn \notin {"connecting", "open"}

\* C31, amended: a TLS or trace request that settled by its 'timeout' event
\* is destroyed, a WebSocket whose timer expired or that opened is neither
\* connecting nor open once the probe has settled, and no probe starts more
\* than one connection in a detection, whatever way it ended.
C31_AbandonedOnExpiry ==
  /\ probe.tls.by = "timeout" => probe.conn.tls = "destroyed"
  /\ probe.cdn.by = "timeout" => probe.conn.cdn = "destroyed"
  /\ probe.ws.by \in {"timer", "open"} => probe.conn.ws \notin {"connecting", "open"}
  /\ "open" \in probe.late => probe.conn.ws \notin {"connecting", "open"}
  /\ \A p \in {"tls", "ws", "cdn"} : probe.opened[p] <= 1

\* a detection has returned after all three probes were cancelled by their
\* timers
C31_Witness ==
  /\ probe.pc = "done"
  /\ probe.tls.by = "timeout"
  /\ probe.ws.by = "timer"
  /\ probe.cdn.by = "timeout"
  /\ probe.opened = [tls |-> 1, ws |-> 1, cdn |-> 1]

\* the probe has started its connection and its promise is pending
InFlight(p) == probe.opened[p] > 0 /\ probe[p].how = "pending"

\* C34: at most one probe of a detection is in flight; the WebSocket probe
\* has started only if the TLS probe has settled, the trace probe only if the
\* WebSocket probe has settled; and the GeoIP step is over when the TLS probe
\* starts: the geoip field no longer changes from then on.
C34_OneInFlight ==
  /\ Cardinality({p \in {"tls", "ws", "cdn"} : InFlight(p)}) <= 1
  /\ probe.opened.ws > 0 => probe.tls.how # "pending"
  /\ probe.opened.cdn > 0 => (probe.tls.how # "pending" /\ probe.ws.how # "pending")
  /\ probe.pc = "done" => \A p \in {"tls", "ws", "cdn"} : ~InFlight(p)
C34_GeoFirst ==
  (probe.opened.tls > 0 /\ probe'.opened.tls > 0)
    => probe'.result.geoip = probe.result.geoip
C34_StrictOrder == [](C34_OneInFlight) /\ [][C34_GeoFirst]_vars

\* the trace probe is in flight after a GeoIP hit, a TLS probe that timed out
\* and a WebSocket probe that opened
C34_Witness ==
  /\ InFlight("cdn")
  /\ probe.result.geoip.present
  /\ probe.tls.by = "timeout"
  /\ probe.ws.by = "open"

\* C32: an invocation of resolveDomain throws the cycle error only for a name
\* that is on its own call chain; a name reached before through another
\* branch is resolved again.
C32_OnlyCurrentChain ==
  call.pc = "done" =>
    \A k \in 1..Len(call.cycles) :
      call.cycles[k].name \in SetOf(call.cycles[k].chain)

\* C33: every CNAME target of the domain of a call is resolved recursively,
\* and the addresses of every target that can be resolved are in the list the
\* call returns, whatever the resolution of the other targets gave.
C33_EveryTargetResolved ==
  (call.pc = "done" /\ ~isIPAddress(call.domain)) =>
    \A t \in SetOf(ZGet(zone.cname, call.domain)) :
      /\ \E k \in 1..Len(call.calls) : call.calls[k] = <<t, 1>>
      /\ TargetIPs(zone, call.domain, t) \subseteq SetOf(call.ips)

\* the number of CNAME targets of the names of a list
RECURSIVE SumTargets(_, _)
SumTargets(z, names) ==
  IF Len(names) = 0 THEN 0
  ELSE Len(CnameTargets(z, Head(names))) + SumTargets(z, Tail(names))

\* C36: a call of resolveDomain ends after a bounded number of steps: no
\* invocation is deeper than DNS_MAX_RECURSION_DEPTH + 1, no name passes the
\* guards twice, there is at most one invocation per CNAME target of a name
\* that passed them (and the first), and at most five DNS calls per such name.
C36_BoundedRecursion ==
  call.pc = "done" =>
    /\ \A k \in 1..Len(call.calls) : call.calls[k][2] <= DNS_MAX_RECURSION_DEPTH + 1
    /\ Cardinality(SetOf(call.descents)) = Len(call.descents)
    /\ Len(call.calls) <= 1 + SumTargets(zone, call.descents)
    /\ Len(call.queries) <= 5 * Len(call.descents)

\* a call for the head of a chain of more than DNS_MAX_RECURSION_DEPTH + 1
\* links has ended; its deepest invocation was at depth
\* DNS_MAX_RECURSION_DEPTH + 1
C36_Witness ==
  /\ call.pc = "done"
  /\ ChainLinks(zone, call.domain, {}) > DNS_MAX_RECURSION_DEPTH + 1
  /\ \E k \in 1..Len(call.calls) : call.calls[k][2] = DNS_MAX_RECURSION_DEPTH + 1

\* the number of accepted requests among the verdicts of a log
Accepted(log) == Cardinality({k \in 1..Len(log) : log[k]})

\* C35: of the K requests of an identity that have reached checkRateLimit in
\* one window, from a start without a record and in whatever order the
\* suspended handlers went on, exactly min(K, MAX_REQUESTS_PER_IP) have been
\* accepted, and the record counts every accepted request.
C35_NoLostUpdate ==
  \A c \in DOMAIN hist :
    /\ Accepted(hist[c].log) = Min(Len(hist[c].log), MAX_REQUESTS_PER_IP)
    /\ Len(hist[c].log) > 0 =>
         /\ RecordOf(rateLimitMap, c).present
         /\ RecordOf(rateLimitMap, c).count = Accepted(hist[c].log)

\* a request has been rejected while an accepted request of the same identity
\* is still in its detection: more requests than the quota have reached the
\* check, and the quota has been given out in full
C35_Witness ==
  \E r1, r2 \in Slots :
    /\ req[r1].pc = "done" /\ req[r1].status = 429
    /\ req[r2].pc = "detecting" /\ req[r2].client = req[r1].client
    /\ req[r2].dnsQueries > 0
    /\ Len(hist[req[r1].client].log) > MAX_REQUESTS_PER_IP
    /\ Accepted(hist[req[r1].client].log) = MAX_REQUESTS_PER_IP

\* C37: the call of checkRateLimit of a rejected request leaves the record of
\* its identity as it found it, and the step that rejects leaves the whole
\* map unchanged; every record of the map has a count from 1 to
\* MAX_REQUESTS_PER_IP.
C37_CountInRange ==
  /\ \A k \in 1..Len(rateLimitMap) :
       rateLimitMap[k].count >= 1 /\ rateLimitMap[k].count <= MAX_REQUESTS_PER_IP
  /\ \A r \in Slots :
       (req[r].rate.checked /\ ~req[r].rate.ok) =>
         /\ req[r].rate.before.present
         /\ req[r].rate.after = req[r].rate.before
C37_RejectionWritesNothing ==
  \A r \in Slots :
    (req'[r] # req[r] /\ req'[r].rate.checked /\ ~req'[r].rate.ok)
      => rateLimitMap' = rateLimitMap
C37_RejectionFrame == [](C37_CountInRange) /\ [][C37_RejectionWritesNothing]_vars

\* a request has been rejected later than the start of the window of its
\* identity's record, which it left with its count at the limit and its start
\* unchanged
C37_Witness ==
  \E r \in Slots :
    /\ req[r].status = 429
    /\ req[r].rate.at > req[r].rate.before.firstRequest
    /\ req[r].rate.after.count = MAX_REQUESTS_PER_IP
    /\ req[r].rate.after.firstRequest = req[r].rate.before.firstRequest

\* C38: the periodic sweep deletes only cache entries older than
\* CACHE_DURATION and rate records older than two rate windows, and every
\* request is admitted or rejected, served from the cache or sent to
\* detection, and answered with the same status and body as it would have
\* been with maps that no sweep has touched.
C38_SameAnswer ==
  \A r \in cfg.slots :
    req[r].twin.checked =>
      /\ req[r].rate.ok = req[r].twin.ok
      /\ Went(req[r], "detect") = (req[r].twin.pc = "detecting")
      /\ ~Went(req[r], "detect") =>
           /\ req[r].pc = req[r].twin.pc
           /\ req[r].status = req[r].twin.status
           /\ req[r].body = req[r].twin.body
C38_DeletesOnlyDead ==
  /\ \A k \in 1..Len(requestCache) :
       MapHas(requestCache', requestCache[k].key)
         \/ now - requestCache[k].timestamp > CACHE_DURATION
  /\ \A k \in 1..Len(rateLimitMap) :
       MapHas(rateLimitMap', rateLimitMap[k].key)
         \/ now - rateLimitMap[k].firstRequest > RATE_LIMIT_WINDOW * 2
C38_SweepTransparent == [](C38_SameAnswer) /\ [][C38_DeletesOnlyDead]_vars

\* a request passed the limiter and missed the cache after the sweep had
\* deleted the record of its identity and the entry of its key, both of them
\* still in the maps that no sweep has touched
C38_Witness ==
  \E r \in cfg.slots :
    /\ cfg.shadow
    /\ req[r].pc = "done"
    /\ req[r].twin.checked
    /\ req[r].twin.known /\ ~req[r].rate.before.present
    /\ req[r].twin.age > CACHE_DURATION /\ req[r].cacheAge = NoAge

\* C39: a request that comes to its cache check while another request with
\* the same cache key is in its detection finds no entry and starts a
\* detection of its own, which gives a result for every target address; a
\* step changes the cache only by storing, under the key of a request that
\* ends its detection in that step, the whole response of that request, and
\* of two such requests the entry left is the response of the one that ended
\* later.
C39_BothDetect ==
  \A r \in Slots :
    (Went(req[r], "detect") /\ req[r].pc = "done") =>
      /\ req[r].status = 200
      /\ DOMAIN req[r].outs = 1..Len(req[r].targetIPs)
      /\ Len(req[r].body.results) = Len(req[r].targetIPs)
      /\ \A r2 \in Slots :
           ( /\ Went(req[r2], "detect") /\ req[r2].pc = "done"
             /\ cacheKey(req[r2]) = cacheKey(req[r])
             /\ req[r2].body.timestamp < req[r].body.timestamp )
           => /\ MapHas(requestCache, cacheKey(req[r]))
              /\ MapGet(requestCache, cacheKey(req[r])).data = req[r].body
C39_MissWhileInFlight ==
  \A r \in Slots :
    ( /\ ~Went(req[r], "cache") /\ Went(req'[r], "cache")
      /\ \E r2 \in Slots \ {r} :
           req[r2].pc = "detecting" /\ cacheKey(req[r2]) = cacheKey(req'[r]) )
    => /\ req'[r].cacheAge = NoAge
       /\ req'[r].pc = "detecting"
       /\ req'[r].pending # {}
       /\ req'[r].results = <<>>
C39_WholeResponseOfOne ==
  requestCache' # requestCache =>
    \E r \in Slots :
      /\ req[r].pc = "detecting" /\ req'[r].pc = "done"
      /\ \A r2 \in Slots \ {r} : req'[r2] = req[r2]
      /\ MapHas(requestCache', cacheKey(req'[r]))
      /\ MapGet(requestCache', cacheKey(req'[r])).data = req'[r].body
      /\ Len(req'[r].body.results) = Len(req'[r].targetIPs)
      /\ \A k \in 1..Len(requestCache) :
           requestCache[k].key # cacheKey(req'[r]) =>
             \E j \in 1..Len(requestCache') : requestCache'[j] = requestCache[k]
      /\ \A j \in 1..Len(requestCache') :
           requestCache'[j].key # cacheKey(req'[r]) =>
             \E k \in 1..Len(requestCache) : requestCache[k] = requestCache'[j]
C39_LastCompleterStays ==
  [](C39_BothDetect) /\ [][C39_MissWhileInFlight /\ C39_WholeResponseOfOne]_vars

\* two requests for one domain have both run a detection, the second having
\* come before the first had ended; their responses differ, and the entry of
\* their key is the response of the one that ended later
C39_Witness ==
  \E r1, r2 \in Slots :
    /\ r1 # r2
    /\ Went(req[r1], "detect") /\ req[r1].pc = "done"
    /\ Went(req[r2], "detect") /\ req[r2].pc = "done"
    /\ cacheKey(req[r1]) = cacheKey(req[r2])
    /\ req[r1].arrivedAt <= req[r2].arrivedAt
    /\ req[r1].body.timestamp < req[r2].body.timestamp
    /\ req[r1].body # [req[r2].body EXCEPT !.timestamp = req[r1].body.timestamp]
    /\ Len(req[r2].targetIPs) > MAX_CONCURRENT
    /\ MapGet(requestCache, cacheKey(req[r2])).data = req[r2].body

=============================================================================
